---- MODULE Spec2Model ----
(***************************************************************************)
(* A model of the AEXIS dispatch and simulation engine: the station claim  *)
(* system (core/station.py), the pod state machine with its continuous     *)
(* movement integrator and the passenger/cargo pickup and delivery logic   *)
(* (core/pod.py).  Events are dispatched as LocalMessageBus does it        *)
(* (core/message_bus.py): publish runs every subscribed handler before it  *)
(* returns.  Distances are metres, times are seconds, both integers.       *)
(* The router chain of RoutingProvider and the offline router              *)
(* (core/routing.py), the dispatcher of AexisSystem (core/system.py) and   *)
(* the two message buses with their handlers (core/message_bus.py) are     *)
(* modelled with specifications of their own over the same state.          *)
(*                                                                         *)
(* Pod.update is a coroutine.  A loading or unloading delay in it          *)
(* (asyncio.sleep) gives the event loop to the other tasks, so arrivals,   *)
(* the dispatcher's decisions, commands and update() calls on other pods   *)
(* may run before the call continues; a pod gets no second update() call   *)
(* while one is suspended.  Everything between two delays is one step.     *)
(***************************************************************************)
EXTENDS Integers, Sequences, FiniteSets, TLC

VARIABLES
    passenger_queue,   \* Station.passenger_queue, per station
    cargo_queue,       \* Station.cargo_queue, per station
    pods,              \* the fields of every pod
    last_claim,        \* the claim_passenger / claim_cargo call just made
    claim_log,         \* per queue and entry id: calls made, calls that returned true
    last_update,       \* per pod: the update(dt) call made last
    move_log,          \* per pod: the route accepted last and the update() calls since
    arrivals,          \* arrival events handled so far
    routing,           \* a RoutingProvider: its routers and its route() call made last
    bus,               \* the message buses: handlers per channel, messages, deliveries
    station_state,     \* per station: congestion_level, loading_bays, alerts published
    dispatch,          \* the arrival event the dispatcher handled last
    system,            \* AexisSystem: running, its loops and its shutdown
    ai_router          \* an AIRouter: its decision engine, the clock, its route() call made last

vars == <<passenger_queue, cargo_queue, pods, last_claim, claim_log, last_update,
          move_log, arrivals, routing, bus, station_state, dispatch, system, ai_router>>

----------------------------------------------------------------------------
(* Bounds of the model *)

MaxQueue == 3          \* entries a station queue may hold
MaxClaimCalls == 3     \* claim calls of one run on ids that are in a queue
MaxElapsed == 6        \* seconds of update() a pod is given per accepted route
MaxArrivals == 3       \* arrival events of one run
MaxAssignments == 2    \* routes a pod accepts in one run

----------------------------------------------------------------------------
(* Values *)

None == "None"

\* Python truthiness of a claimed_by value: an absent key (None) and the
\* empty string are false
Truthy(v) == v # None /\ v # ""

s1 == "station_001"
s2 == "station_002"
s3 == "station_003"
Stations == {s1, s2, s3}

\* pod ids as AexisSystem._create_pods builds them: pod_001, pod_002, ...
PassengerPods == {"pod_001", "pod_002"}
CargoPods == {"pod_003"}
PodIds == PassengerPods \cup CargoPods

PassengerIds == {"p1", "p2"}
CargoIds == {"c1", "c2"}
Weights == {200, 400}

Min(a, b) == IF a <= b THEN a ELSE b

----------------------------------------------------------------------------
(* Station: queues and the claim API *)

\* the queue entry _handle_passenger_arrival appends: no claimed_by key
NewPassenger(id, dest) ==
    [passenger_id |-> id, destination |-> dest, claimed_by |-> None]

\* the queue entry _handle_cargo_request appends
NewCargo(id, dest, w) ==
    [request_id |-> id, destination |-> dest, weight |-> w, claimed_by |-> None]

\* index of the first entry of q with that passenger_id, 0 when there is none
FirstPassenger(q, id) ==
    IF \E i \in 1..Len(q) : q[i].passenger_id = id
    THEN CHOOSE i \in 1..Len(q) :
            /\ q[i].passenger_id = id
            /\ \A j \in 1..(i-1) : q[j].passenger_id # id
    ELSE 0

FirstCargo(q, id) ==
    IF \E i \in 1..Len(q) : q[i].request_id = id
    THEN CHOOSE i \in 1..Len(q) :
            /\ q[i].request_id = id
            /\ \A j \in 1..(i-1) : q[j].request_id # id
    ELSE 0

\* Station.claim_passenger: the value returned
claim_passenger_result_unguarded(q, id) == FirstPassenger(q, id) # 0

claim_passenger_result(q, id) ==
    LET i == FirstPassenger(q, id)
    IN  i # 0 /\ ~Truthy(q[i].claimed_by)

\* Station.claim_passenger: the queue afterwards
claim_passenger_queue_overwriting(q, id, pod_id) ==
    LET i == FirstPassenger(q, id)
    IN  IF i # 0 THEN [q EXCEPT ![i].claimed_by = pod_id] ELSE q

claim_passenger_queue(q, id, pod_id) ==
    IF claim_passenger_result(q, id)
    THEN [q EXCEPT ![FirstPassenger(q, id)].claimed_by = pod_id]
    ELSE q

\* Station.claim_cargo
claim_cargo_result(q, id) ==
    LET i == FirstCargo(q, id)
    IN  i # 0 /\ ~Truthy(q[i].claimed_by)

claim_cargo_queue(q, id, pod_id) ==
    IF claim_cargo_result(q, id)
    THEN [q EXCEPT ![FirstCargo(q, id)].claimed_by = pod_id]
    ELSE q

\* Station.get_pending_passengers() / get_pending_cargo(), no destination filter
get_pending_passengers(q) ==
    LET unclaimed(e) == ~Truthy(e.claimed_by) IN SelectSeq(q, unclaimed)

get_pending_cargo(q) ==
    LET unclaimed(e) == ~Truthy(e.claimed_by) IN SelectSeq(q, unclaimed)

\* Station._handle_passenger_pickup: every entry with that id leaves the queue
handle_passenger_pickup(q, id) ==
    LET keep(e) == e.passenger_id # id IN SelectSeq(q, keep)

\* Station._handle_cargo_loading
handle_cargo_loading(q, id) ==
    LET keep(e) == e.request_id # id IN SelectSeq(q, keep)

----------------------------------------------------------------------------
(* Network: three stations on a line; every edge's length is the Euclidean  *)
(* distance of its end points (NetworkContext._build_edge_segments, and the *)
(* synthetic segment of Pod._hydrate_route for a pair with no edge)         *)

station_positions(s) ==
    CASE s = s1 -> 0
      [] s = s2 -> 40
      [] s = s3 -> 100
      [] OTHER -> 0

Abs(x) == IF x < 0 THEN 0 - x ELSE x

\* EdgeSegment: segment_id is start_node->end_node
EdgeSegment(a, b) == [start_node |-> a, end_node |-> b]

\* no segment: the None of Pod.current_segment
NoSegment == [start_node |-> None, end_node |-> None]

\* EdgeSegment.length
Length(seg) == Abs(station_positions(seg.end_node) - station_positions(seg.start_node))

----------------------------------------------------------------------------
(* Pod *)

capacity == 4             \* PassengerPod.capacity
weight_capacity == 500    \* CargoPod.weight_capacity
speed == 20               \* Pod.speed, m/s
MaxTickDistance == 100    \* the cap of Pod.update on the distance of one tick

IDLE == "idle"
LOADING == "loading"
EN_ROUTE == "en_route"
UNLOADING == "unloading"

\* pods built with the system's station dict (AexisSystem._create_pods); a pod
\* built without it (stations=None) takes the legacy path of the pickup
PodsWithStations == {"pod_001", "pod_003"}

\* Pod._stations.get(station_id) finds a station
HasStation(pod_id, station_id) ==
    pod_id \in PodsWithStations /\ station_id \in Stations

StationLocation(s) ==
    [location_type |-> "station", node_id |-> s, edge_id |-> NoSegment,
     distance_on_edge |-> 0]

EdgeLocation(seg, d) ==
    [location_type |-> "edge", node_id |-> None, edge_id |-> seg, distance_on_edge |-> d]

\* the coroutine of the pod suspended in a loading or unloading delay:
\* pc "none" when no call is suspended; ctx is the caller of
\* _handle_station_arrival ("update" or "completion"), dist the distance
\* update() still has to travel
NoTask == [pc |-> "none", station |-> None, items |-> <<>>, ctx |-> None, dist |-> 0]

\* Pod.current_route: None, or a Route with its station list
NoRoute == [present |-> FALSE, stations |-> <<>>]
Route(stations) == [present |-> TRUE, stations |-> stations]

\* Pod.__init__ and the subclass constructors
InitPod ==
    [status |-> IDLE,
     location_descriptor |-> StationLocation(s1),
     route_queue |-> <<>>,
     current_segment |-> NoSegment,
     segment_progress |-> 0,
     current_route |-> NoRoute,
     available_requests |-> <<>>,
     passengers |-> <<>>,
     cargo |-> <<>>,
     current_weight |-> 0,
     task |-> NoTask]

\* Pod.location
location(pod) ==
    IF pod.location_descriptor.location_type = "station"
    THEN pod.location_descriptor.node_id
    ELSE pod.location_descriptor.edge_id

\* the segments of a station list, in order: network.edges[start->end] when
\* the pair is an edge of the graph, otherwise the synthetic segment between
\* the two stations' positions (the origin for a station that has none); both
\* have the pair for end points and the distance of the positions for length
RECURSIVE Segments(_)
Segments(stations) ==
    IF Len(stations) < 2 THEN <<>>
    ELSE <<EdgeSegment(stations[1], stations[2])>> \o Segments(Tail(stations))

\* _hydrate_route that leaves the segments of the earlier route in the queue
hydrate_route_keeping_queue(pod, stations) ==
    LET segs == Segments(stations)
    IN  IF segs = <<>>
        THEN [pod EXCEPT !.route_queue = <<>>, !.current_segment = NoSegment,
                         !.segment_progress = 0]
        ELSE [pod EXCEPT !.route_queue = @ \o Tail(segs), !.current_segment = Head(segs),
                         !.segment_progress = 0]

\* Pod._hydrate_route
hydrate_route(pod, stations) ==
    LET segs == Segments(stations)
    IN  IF segs = <<>>
        THEN [pod EXCEPT !.route_queue = <<>>, !.current_segment = NoSegment,
                         !.segment_progress = 0]
        ELSE [pod EXCEPT !.route_queue = Tail(segs), !.current_segment = Head(segs),
                         !.segment_progress = 0]

\* Pod._handle_route_assignment, the route given as a list of station ids
handle_route_assignment(pod, stations) ==
    IF stations # <<>>
    THEN [hydrate_route(pod, stations) EXCEPT !.current_route = Route(stations),
                                             !.status = EN_ROUTE]
    ELSE [pod EXCEPT !.current_route = Route(stations)]

\* the "route" parameter of an AssignRoute command: a list of station ids, an
\* object with some of the keys of a Route, or a value of another type
RouteList(stations) == [kind |-> "list", keys |-> {}, stations |-> stations]
RouteDict(keys, stations) == [kind |-> "dict", keys |-> keys, stations |-> stations]
RouteOther == [kind |-> "other", keys |-> {}, stations |-> <<>>]

required_fields == {"route_id", "stations", "estimated_duration"}

\* Pod._handle_route_assignment from its first line, on the route parameter
handle_route_command(pod, route_data) ==
    IF route_data.kind = "list"
    THEN handle_route_assignment(pod, route_data.stations)
    ELSE IF route_data.kind = "dict"
    THEN IF required_fields \subseteq route_data.keys
         THEN handle_route_assignment(pod, route_data.stations)
         ELSE pod
    ELSE pod

\* Pod._execute_decision
execute_decision(pod, stations) ==
    [hydrate_route(pod, stations) EXCEPT !.current_route = Route(stations),
                                        !.status = EN_ROUTE]

\* Pod._advance_segment
advance_segment(pod) ==
    IF pod.route_queue # <<>>
    THEN [pod EXCEPT !.current_segment = Head(pod.route_queue),
                     !.route_queue = Tail(pod.route_queue),
                     !.segment_progress = 0]
    ELSE [pod EXCEPT !.current_segment = NoSegment]

\* Pod._update_location_descriptor
update_location_descriptor(pod) ==
    IF pod.current_segment = NoSegment THEN pod
    ELSE [pod EXCEPT !.location_descriptor =
                        EdgeLocation(pod.current_segment, pod.segment_progress)]

----------------------------------------------------------------------------
(* Station arrival of a pod.  The operators below work on a record w:      *)
(* pq, cq the station queues, pod the fields of the pod (id its pod_id),   *)
(* pos the PodPositionUpdate events the running update() call published,   *)
(* checks the stations whose _handle_station_arrival it ran, passed the     *)
(* end nodes of the segments it left for a next segment, delivered the ids  *)
(* of the PassengerDelivered and CargoDelivered events it published.        *)
(* A loading or unloading delay (asyncio.sleep) suspends the call: the pod *)
(* keeps its frame in pod.task and ResumePod continues from there.         *)

Suspended(w) == w.pod.task.pc # "none"

suspend(w, pc, station_id, items, ctx, dist) ==
    [w EXCEPT !.pod.task = [pc |-> pc, station |-> station_id, items |-> items,
                            ctx |-> ctx, dist |-> dist]]

\* the PassengerPickedUp event reaching every station (_handle_passenger_pickup
\* drops the entry at the station the event names)
publish_passenger_picked_up(pq, passenger_id, station_id) ==
    [s \in Stations |->
        IF s = station_id THEN handle_passenger_pickup(pq[s], passenger_id) ELSE pq[s]]

\* the CargoLoaded event reaching every station (_handle_cargo_loading)
publish_cargo_loaded(cq, request_id, station_id) ==
    [s \in Stations |->
        IF s = station_id THEN handle_cargo_loading(cq[s], request_id) ELSE cq[s]]

ManifestPassenger(e) == [passenger_id |-> e.passenger_id, destination |-> e.destination]

\* the claim loop of _execute_passenger_pickup over pending[:remaining_capacity]
RECURSIVE claim_passengers(_, _, _, _)
claim_passengers(q, pending, pod_id, acc) ==
    IF pending = <<>> THEN [queue |-> q, pickups |-> acc]
    ELSE LET e == Head(pending)
         IN  claim_passengers(
                 claim_passenger_queue(q, e.passenger_id, pod_id),
                 Tail(pending), pod_id,
                 IF claim_passenger_result(q, e.passenger_id)
                 THEN Append(acc, ManifestPassenger(e)) ELSE acc)

\* the candidates of the legacy path: the pod's own _available_requests
legacy_passenger_pickups(pod, station_id) ==
    LET mine(r) == r.origin = station_id /\ r.type = "passenger"
        sel == SelectSeq(pod.available_requests, mine)
    IN  [i \in 1..Len(sel) |-> ManifestPassenger(sel[i])]

\* _execute_passenger_pickup with a capacity check that is off by one seat
execute_passenger_pickup_overbooked(w, station_id, ctx, dist) ==
    LET remaining_capacity == capacity + 1 - Len(w.pod.passengers)
    IN  IF remaining_capacity <= 0 THEN w
        ELSE LET pending == get_pending_passengers(w.pq[station_id])
                 claimed == claim_passengers(w.pq[station_id],
                                SubSeq(pending, 1, Min(remaining_capacity, Len(pending))),
                                w.id, <<>>)
                 pickups == IF HasStation(w.id, station_id) THEN claimed.pickups
                            ELSE legacy_passenger_pickups(w.pod, station_id)
                 w1 == IF HasStation(w.id, station_id)
                       THEN [w EXCEPT !.pq[station_id] = claimed.queue]
                       ELSE w
             IN  IF pickups = <<>> THEN w1
                 ELSE suspend([w1 EXCEPT !.pod.status = LOADING],
                              "loading", station_id, pickups, ctx, dist)

\* PassengerPod._execute_passenger_pickup up to the loading delay
execute_passenger_pickup(w, station_id, ctx, dist) ==
    LET remaining_capacity == capacity - Len(w.pod.passengers)
    IN  IF remaining_capacity <= 0 THEN w
        ELSE LET pending == get_pending_passengers(w.pq[station_id])
                 claimed == claim_passengers(w.pq[station_id],
                                SubSeq(pending, 1, Min(remaining_capacity, Len(pending))),
                                w.id, <<>>)
                 pickups == IF HasStation(w.id, station_id) THEN claimed.pickups
                            ELSE legacy_passenger_pickups(w.pod, station_id)
                 w1 == IF HasStation(w.id, station_id)
                       THEN [w EXCEPT !.pq[station_id] = claimed.queue]
                       ELSE w
             IN  IF pickups = <<>> THEN w1
                 ELSE suspend([w1 EXCEPT !.pod.status = LOADING],
                              "loading", station_id, pickups, ctx, dist)

\* ... and after it: the manifest grows, one PassengerPickedUp per pickup
RECURSIVE board_passengers(_, _, _)
board_passengers(w, pickups, station_id) ==
    IF pickups = <<>> THEN w
    ELSE board_passengers(
            [w EXCEPT !.pod.passengers = Append(@, Head(pickups)),
                      !.pq = publish_passenger_picked_up(@, Head(pickups).passenger_id,
                                                         station_id)],
            Tail(pickups), station_id)

finish_passenger_pickup(w) ==
    [board_passengers(w, w.pod.task.items, w.pod.task.station)
        EXCEPT !.pod.status = EN_ROUTE, !.pod.task = NoTask]

\* list.remove: the first element equal to x leaves the list
RemoveFirst(seq, x) ==
    IF \E i \in 1..Len(seq) : seq[i] = x
    THEN LET i == CHOOSE k \in 1..Len(seq) :
                     seq[k] = x /\ \A j \in 1..(k-1) : seq[j] # x
         IN  SubSeq(seq, 1, i-1) \o SubSeq(seq, i+1, Len(seq))
    ELSE seq

RECURSIVE RemoveAll(_, _)
RemoveAll(seq, xs) ==
    IF xs = <<>> THEN seq ELSE RemoveAll(RemoveFirst(seq, Head(xs)), Tail(xs))

\* _execute_passenger_delivery taking every passenger aboard for delivered
execute_passenger_delivery_all(w, station_id, ctx, dist) ==
    LET delivered == w.pod.passengers
    IN  IF delivered = <<>> THEN w
        ELSE suspend([w EXCEPT !.pod.status = UNLOADING],
                     "unloading", station_id, delivered, ctx, dist)

\* PassengerPod._execute_passenger_delivery up to the unloading delay
execute_passenger_delivery(w, station_id, ctx, dist) ==
    LET here(e) == e.destination = station_id
        delivered == SelectSeq(w.pod.passengers, here)
    IN  IF delivered = <<>> THEN w
        ELSE suspend([w EXCEPT !.pod.status = UNLOADING],
                     "unloading", station_id, delivered, ctx, dist)

\* ... and after it: every delivered entry leaves the manifest and gets its
\* PassengerDelivered event
finish_passenger_delivery(w) ==
    [w EXCEPT !.pod.passengers = RemoveAll(@, w.pod.task.items),
              !.delivered = @ \o [i \in 1..Len(w.pod.task.items) |->
                                     w.pod.task.items[i].passenger_id],
              !.pod.status = EN_ROUTE, !.pod.task = NoTask]

ManifestCargo(e) ==
    [request_id |-> e.request_id, destination |-> e.destination, weight |-> e.weight]

\* the candidates of the legacy path of the cargo pickup
legacy_pending_cargo(pod, station_id) ==
    LET mine(r) == r.origin = station_id /\ r.type = "cargo"
    IN  SelectSeq(pod.available_requests, mine)

\* the loop of _execute_cargo_pickup with the claim made before the weight test
RECURSIVE load_cargo_claim_first(_, _, _, _)
load_cargo_claim_first(w, pending, station_id, loaded_weight) ==
    IF pending = <<>> THEN [w |-> w, loaded_weight |-> loaded_weight]
    ELSE LET req == Head(pending)
             fits == /\ req.weight > 0
                     /\ w.pod.current_weight + loaded_weight + req.weight <= weight_capacity
             has_station == HasStation(w.id, station_id)
             claimed == ~has_station \/ claim_cargo_result(w.cq[station_id], req.request_id)
             cq1 == IF has_station
                    THEN [w.cq EXCEPT ![station_id] =
                             claim_cargo_queue(@, req.request_id, w.id)]
                    ELSE w.cq
         IN  IF fits /\ claimed
             THEN load_cargo_claim_first(
                      [w EXCEPT !.pod.cargo = Append(@, ManifestCargo(req)),
                                !.cq = publish_cargo_loaded(cq1, req.request_id,
                                                            station_id)],
                      Tail(pending), station_id, loaded_weight + req.weight)
             ELSE load_cargo_claim_first([w EXCEPT !.cq = cq1], Tail(pending),
                                         station_id, loaded_weight)

\* the loop of _execute_cargo_pickup over pending_cargo: a request that is too
\* heavy is skipped, one whose claim fails is skipped, the others are loaded
\* and their CargoLoaded event published at once
RECURSIVE load_cargo(_, _, _, _)
load_cargo(w, pending, station_id, loaded_weight) ==
    IF pending = <<>> THEN [w |-> w, loaded_weight |-> loaded_weight]
    ELSE LET req == Head(pending)
             fits == /\ req.weight > 0
                     /\ w.pod.current_weight + loaded_weight + req.weight <= weight_capacity
             has_station == HasStation(w.id, station_id)
             claimed == ~has_station \/ claim_cargo_result(w.cq[station_id], req.request_id)
         IN  IF fits /\ claimed
             THEN LET cq1 == IF has_station
                             THEN [w.cq EXCEPT ![station_id] =
                                      claim_cargo_queue(@, req.request_id, w.id)]
                             ELSE w.cq
                  IN  load_cargo(
                          [w EXCEPT !.pod.cargo = Append(@, ManifestCargo(req)),
                                    !.cq = publish_cargo_loaded(cq1, req.request_id,
                                                                station_id)],
                          Tail(pending), station_id, loaded_weight + req.weight)
             ELSE load_cargo(w, Tail(pending), station_id, loaded_weight)

\* CargoPod._execute_cargo_pickup up to the loading delay
execute_cargo_pickup(w, station_id, ctx, dist) ==
    LET remaining_capacity == weight_capacity - w.pod.current_weight
        pending_cargo == IF HasStation(w.id, station_id)
                         THEN get_pending_cargo(w.cq[station_id])
                         ELSE legacy_pending_cargo(w.pod, station_id)
    IN  IF remaining_capacity <= 0 \/ pending_cargo = <<>> THEN w
        ELSE LET r == load_cargo([w EXCEPT !.pod.status = LOADING],
                                 pending_cargo, station_id, 0)
             IN  IF r.loaded_weight = 0
                 THEN [r.w EXCEPT !.pod.status = IDLE]
                 ELSE suspend([r.w EXCEPT !.pod.current_weight = @ + r.loaded_weight],
                              "loading", station_id, <<>>, ctx, dist)

\* ... and after it
finish_cargo_pickup(w) ==
    [w EXCEPT !.pod.status = EN_ROUTE, !.pod.task = NoTask]

RECURSIVE SumWeight(_)
SumWeight(items) ==
    IF items = <<>> THEN 0 ELSE Head(items).weight + SumWeight(Tail(items))

\* CargoPod._execute_cargo_delivery up to the unloading delay
execute_cargo_delivery(w, station_id, ctx, dist) ==
    LET here(e) == e.destination = station_id
        delivered == SelectSeq(w.pod.cargo, here)
    IN  IF delivered = <<>> THEN w
        ELSE suspend([w EXCEPT !.pod.status = UNLOADING],
                     "unloading", station_id, delivered, ctx, dist)

\* ... and after it
finish_cargo_delivery(w) ==
    [w EXCEPT !.pod.cargo = RemoveAll(@, w.pod.task.items),
              !.pod.current_weight = @ - SumWeight(w.pod.task.items),
              !.delivered = @ \o [i \in 1..Len(w.pod.task.items) |->
                                     w.pod.task.items[i].request_id],
              !.pod.status = EN_ROUTE, !.pod.task = NoTask]

\* the delivery step of _handle_station_arrival, by pod type
execute_delivery(w, station_id, ctx, dist) ==
    IF w.id \in CargoPods
    THEN execute_cargo_delivery(w, station_id, ctx, dist)
    ELSE execute_passenger_delivery(w, station_id, ctx, dist)

\* _handle_station_arrival without its first line, status = IDLE
handle_station_arrival_keeping_status(w, station_id, ctx, dist) ==
    LET w0 == IF w.id \in CargoPods
              THEN [w EXCEPT !.pod.location_descriptor = StationLocation(station_id),
                             !.checks = Append(@, station_id)]
              ELSE [w EXCEPT !.checks = Append(@, station_id)]
        w1 == IF w.id \in CargoPods
              THEN execute_cargo_pickup(w0, station_id, ctx, dist)
              ELSE execute_passenger_pickup(w0, station_id, ctx, dist)
    IN  IF Suspended(w1) THEN w1 ELSE execute_delivery(w1, station_id, ctx, dist)

\* PassengerPod._handle_station_arrival / CargoPod._handle_station_arrival:
\* status IDLE, then the pickup, then the delivery
handle_station_arrival(w, station_id, ctx, dist) ==
    LET w0 == IF w.id \in CargoPods
              THEN [w EXCEPT !.pod.status = IDLE,
                             !.pod.location_descriptor = StationLocation(station_id),
                             !.checks = Append(@, station_id)]
              ELSE [w EXCEPT !.pod.status = IDLE, !.checks = Append(@, station_id)]
        w1 == IF w.id \in CargoPods
              THEN execute_cargo_pickup(w0, station_id, ctx, dist)
              ELSE execute_passenger_pickup(w0, station_id, ctx, dist)
    IN  IF Suspended(w1) THEN w1 ELSE execute_delivery(w1, station_id, ctx, dist)

\* the end of Pod._handle_route_completion, after the station arrival
finish_route_completion(w) ==
    [w EXCEPT !.pod.status = IDLE, !.pod.current_route = NoRoute,
              !.pod.segment_progress = 0, !.pos = @ + 1]

\* Pod._handle_route_completion
handle_route_completion(w) ==
    IF w.pod.current_route.present /\ w.pod.current_route.stations # <<>>
    THEN LET final_station ==
                 w.pod.current_route.stations[Len(w.pod.current_route.stations)]
             w1 == handle_station_arrival(
                       [w EXCEPT !.pod.location_descriptor = StationLocation(final_station)],
                       final_station, "completion", 0)
         IN  IF Suspended(w1) THEN w1 ELSE finish_route_completion(w1)
    ELSE finish_route_completion(w)

\* the test of Pod.update that decides whether the node just reached gets its
\* station-arrival check
arrival_check_due(pod) == pod.current_segment = NoSegment

\* the end of Pod.update when the loop has used up the distance
finish_update_without_event(w) ==
    [w EXCEPT !.pod = update_location_descriptor(@)]

finish_update(w) ==
    [w EXCEPT !.pod = update_location_descriptor(@), !.pos = @ + 1]

\* the while loop of Pod.update with dist_to_travel = dist
RECURSIVE update_loop(_, _)
update_loop(w, dist) ==
    IF dist <= 0 THEN finish_update(w)
    ELSE IF w.pod.current_segment = NoSegment THEN handle_route_completion(w)
    ELSE LET remaining_on_edge == Length(w.pod.current_segment) - w.pod.segment_progress
         IN  IF dist >= remaining_on_edge
             THEN LET arrived_node == w.pod.current_segment.end_node
                      w1 == [w EXCEPT !.pod = advance_segment(@)]
                      rest == dist - remaining_on_edge
                  IN  IF arrival_check_due(w1.pod)
                      THEN LET w2 == handle_station_arrival(w1, arrived_node, "update", rest)
                           IN  IF Suspended(w2) \/ w2.pod.status \in {LOADING, UNLOADING}
                               THEN w2
                               ELSE update_loop(w2, rest)
                      ELSE update_loop([w1 EXCEPT !.passed = Append(@, arrived_node)], rest)
             ELSE finish_update([w EXCEPT !.pod.segment_progress = @ + dist])

\* the code after _handle_station_arrival returns to its caller
after_station_arrival(w, ctx, dist) ==
    IF ctx = "completion" THEN finish_route_completion(w)
    ELSE IF w.pod.status \in {LOADING, UNLOADING} THEN w
    ELSE update_loop(w, dist)

\* the end of a loading or unloading delay: the suspended call runs on, to
\* its next delay or to its end
resume(w) ==
    LET t == w.pod.task
    IN  IF t.pc = "loading"
        THEN LET w1 == IF w.id \in CargoPods THEN finish_cargo_pickup(w)
                       ELSE finish_passenger_pickup(w)
                 w2 == execute_delivery(w1, t.station, t.ctx, t.dist)
             IN  IF Suspended(w2) THEN w2 ELSE after_station_arrival(w2, t.ctx, t.dist)
        ELSE LET w1 == IF w.id \in CargoPods THEN finish_cargo_delivery(w)
                       ELSE finish_passenger_delivery(w)
             IN  after_station_arrival(w1, t.ctx, t.dist)

\* Pod.update(dt) without the early return of its first lines
update_unguarded(w, dt) ==
    update_loop(w, Min(speed * dt, MaxTickDistance))

\* Pod.update(dt) from its first line
update(w, dt) ==
    IF w.pod.status # EN_ROUTE \/ w.pod.current_segment = NoSegment THEN w
    ELSE update_loop(w, Min(speed * dt, MaxTickDistance))

----------------------------------------------------------------------------
(* RoutingProvider (core/routing.py).  A router is what its route() does  *)
(* when called: it returns a Route with a station list, a Route with an    *)
(* empty station list or None, or it raises.                               *)

MaxRouters == 3        \* routers added to one provider

\* what Router.route(context) does for a router of the chain
RouterBehaviours ==
    {[kind |-> "route", stations |-> <<s1, s2>>],
     [kind |-> "route", stations |-> <<s1, s2, s3>>],
     [kind |-> "route", stations |-> <<>>],
     [kind |-> "none", stations |-> <<>>],
     [kind |-> "ConnectionError", stations |-> <<>>],
     [kind |-> "TimeoutError", stations |-> <<>>],
     [kind |-> "Exception", stations |-> <<>>]}

\* the value route = await router.route(context) binds, for a router that
\* does not raise
router_route(router) ==
    IF router.kind = "route" THEN Route(router.stations) ELSE NoRoute

\* `if route:` for a Route object or None: the dataclass defines neither
\* __bool__ nor __len__, so every Route object is true
RouteTruthy(route) == route.present

\* the outcome of RoutingProvider.route: the Route returned or the
\* ValueError raised, and the routers invoked, in order
Returned(route, invoked) ==
    [raised |-> FALSE, error |-> None, route |-> route, invoked |-> invoked]

Raised(error, invoked) ==
    [raised |-> TRUE, error |-> error, route |-> NoRoute, invoked |-> invoked]

\* the loop of RoutingProvider.route that lets an exception of a router other
\* than ConnectionError and TimeoutError reach the caller
RECURSIVE router_loop_uncaught(_, _, _)
router_loop_uncaught(routers, i, invoked) ==
    IF i > Len(routers) THEN Raised("ValueError", invoked)
    ELSE LET router == routers[i]
             now == Append(invoked, i)
         IN  IF router.kind = "Exception" THEN Raised("Exception", now)
             ELSE IF router.kind \in {"ConnectionError", "TimeoutError"}
             THEN router_loop_uncaught(routers, i + 1, now)
             ELSE IF RouteTruthy(router_route(router))
                  THEN Returned(router_route(router), now)
                  ELSE router_loop_uncaught(routers, i + 1, now)

\* the loop of RoutingProvider.route over self._routers, from router i on
RECURSIVE router_loop(_, _, _)
router_loop(routers, i, invoked) ==
    IF i > Len(routers) THEN Raised("ValueError", invoked)
    ELSE LET router == routers[i]
             now == Append(invoked, i)
         IN  IF router.kind \in {"ConnectionError", "TimeoutError", "Exception"}
             THEN router_loop(routers, i + 1, now)
             ELSE IF RouteTruthy(router_route(router))
                  THEN Returned(router_route(router), now)
                  ELSE router_loop(routers, i + 1, now)

\* RoutingProvider.route(context)
provider_route(routers) ==
    IF routers = <<>> THEN Raised("ValueError", <<>>)
    ELSE router_loop(routers, 1, <<>>)

\* published: a PodDecision event was published for the route; escaped: an
\* exception left the caller of route()
NoCall == [called |-> FALSE, raised |-> FALSE, error |-> None, route |-> NoRoute,
           invoked |-> <<>>, published |-> FALSE, escaped |-> FALSE]

\* RoutingProvider.__init__
InitRouting == [routers |-> <<>>, call |-> NoCall]

----------------------------------------------------------------------------
(* The message buses (core/message_bus.py) *)

MaxHandlers == 2     \* handlers subscribed to one channel by subscribe() calls from outside
MaxPublishes == 2    \* publish_event / publish_command calls made from outside a handler
MaxRegistrations == 3   \* subscribe / unsubscribe calls made from outside a handler
MaxGarbage == 1      \* payloads that are not JSON written to the broker

\* MessageBus.CHANNELS: the channel of the passenger events and the channel of
\* the pod commands
PASSENGER_EVENTS == "aexis:events:passenger"
POD_COMMANDS == "aexis:commands:pods"
CARGO_EVENTS == "aexis:events:cargo"
POD_EVENTS == "aexis:events:pods"
SYSTEM_EVENTS == "aexis:events:system"
CONGESTION_EVENTS == "aexis:events:congestion"
Channels == {PASSENGER_EVENTS, CARGO_EVENTS, POD_EVENTS, SYSTEM_EVENTS, CONGESTION_EVENTS,
             POD_COMMANDS}

\* the channels the handlers of the bus tests are subscribed to
BusChannels == {PASSENGER_EVENTS, POD_COMMANDS}

\* event_type.lower() of an event class, as the words of its name
CongestionAlert == <<"congestion", "alert">>
SystemSnapshot == <<"system", "snapshot">>

\* `word in event_type.lower()` for a word that is no part of another
Contains(event_type, word) == \E i \in 1..Len(event_type) : event_type[i] = word

\* MessageBus.get_event_channel(event_type)
get_event_channel(event_type) ==
    IF Contains(event_type, "passenger") THEN PASSENGER_EVENTS
    ELSE IF Contains(event_type, "cargo") THEN CARGO_EVENTS
    ELSE IF Contains(event_type, "pod") THEN POD_EVENTS
    ELSE IF Contains(event_type, "congestion") THEN CONGESTION_EVENTS
    ELSE SYSTEM_EVENTS

BusKinds == {"LocalMessageBus", "MessageBus"}

\* The handlers subscribed.  error_prone_handler raises on the first message
\* published from outside (test_subscriber_recovery_after_error); the
\* unsubscribing handler unsubscribes itself when called, the subscribing
\* handler subscribes late_handler when called, the publishing handler
\* answers a message published from outside with a message of its own on the
\* same channel; valid_handler and late_handler only take the message.
Handlers == {"valid_handler", "error_prone_handler", "unsubscribing_handler",
             "subscribing_handler", "publishing_handler", "late_handler"}

\* Event(...) and Command(...) number n published from outside; the message the
\* publishing handler publishes on receiving m
Event(n) == [src |-> "event", n |-> n]
Command(n) == [src |-> "command", n |-> n]
Answer(m) == [src |-> "publishing_handler", n |-> m.n]
NoMessage == [src |-> None, n |-> 0]

\* error_prone_handler: raise ValueError when the message says so
trigger_error(msg) == msg.n = 1 /\ msg.src # "publishing_handler"

\* the dict both buses hand to the handlers
Envelope(channel, msg) == [channel |-> channel, message |-> msg]

\* json.dumps(message): the text of a JSON document
json_dumps(message) == [json |-> TRUE, text |-> message]

\* a payload that is no JSON document ("this is not json { [ }")
NotJson(channel) == [json |-> FALSE, text |-> Envelope(channel, NoMessage)]

\* json.loads that takes any text for a document
json_loads_lenient(data) == [ok |-> TRUE, value |-> data.text]

\* json.loads(data): the document, or JSONDecodeError
json_loads(data) ==
    IF data.json THEN [ok |-> TRUE, value |-> data.text]
    ELSE [ok |-> FALSE, value |-> data.text]

\* list.remove(handler): the first occurrence goes; ValueError when there is none
RECURSIVE list_remove(_, _)
list_remove(list, handler) ==
    IF list = <<>> THEN <<>>
    ELSE IF Head(list) = handler THEN Tail(list)
    ELSE <<Head(list)>> \o list_remove(Tail(list), handler)

InList(list, handler) == \E i \in DOMAIN list : list[i] = handler

\* LocalMessageBus.subscribe(channel, handler)
local_subscribe(b, channel, handler) ==
    [b EXCEPT !.keys = @ \cup {channel},
              !.subscribers[channel] = Append(@, handler)]

\* MessageBus.subscribe(channel, handler): a channel new to a running bus is
\* subscribed at the broker by a task of its own
broker_subscribe(b, channel, handler) ==
    [b EXCEPT !.keys = @ \cup {channel},
              !.subscribe_tasks = IF channel \notin b.keys /\ b.running /\ b.pubsub
                                  THEN @ \cup {channel} ELSE @,
              !.subscribers[channel] = Append(@, handler)]

\* subscribe of the bus in use
subscribe(b, channel, handler) ==
    IF b.kind = "LocalMessageBus" THEN local_subscribe(b, channel, handler)
    ELSE broker_subscribe(b, channel, handler)

\* MessageBus.unsubscribe / LocalMessageBus.unsubscribe(channel, handler)
unsubscribe(b, channel, handler) ==
    IF channel \in b.keys
    THEN [b EXCEPT !.subscribers[channel] = list_remove(@, handler)]
    ELSE b

\* redis_client.publish(channel, data): the broker hands the payload to the
\* bus's pubsub when the pubsub is subscribed to the channel
redis_publish(b, channel, data) ==
    IF channel \in b.redis_channels
    THEN [b EXCEPT !.received = Append(@, [channel |-> channel, data |-> data])]
    ELSE b

\* MessageBus.publish_event / publish_command(channel, message)
broker_publish(b, channel, msg) ==
    IF ~b.redis_client THEN [bus |-> b, result |-> FALSE]
    ELSE [bus |-> redis_publish(b, channel, json_dumps(Envelope(channel, msg))),
          result |-> TRUE]

RECURSIVE handler_call(_, _, _)
RECURSIVE handle_local_loop_uncaught(_, _, _, _)
RECURSIVE handle_local_loop(_, _, _, _)
RECURSIVE handle_local_message(_, _, _)
RECURSIVE local_publish_unchecked(_, _, _)
RECURSIVE local_publish(_, _, _)
RECURSIVE publish(_, _, _)

\* one call handler(data): the handler's own code.  The delivery is logged
\* with whether the call raised.
handler_call(b, handler, data) ==
    LET channel == data.channel
        msg == data.message
        raised == handler = "error_prone_handler" /\ trigger_error(msg)
        b1 == [b EXCEPT !.log = Append(@, [handler |-> handler, channel |-> channel,
                                           message |-> msg, raised |-> raised])]
    IN  CASE handler = "unsubscribing_handler" -> unsubscribe(b1, channel, handler)
          [] handler = "subscribing_handler"
                 /\ ~InList(b1.subscribers[channel], "late_handler") ->
                 subscribe(b1, channel, "late_handler")
          [] handler = "publishing_handler" /\ msg.src # "publishing_handler" ->
                 publish(b1, channel, Answer(msg)).bus
          [] OTHER -> b1

\* the loop of _handle_local_message without its try: an exception of a
\* handler ends the dispatch
handle_local_loop_uncaught(b, channel, data, i) ==
    IF i > Len(b.subscribers[channel]) THEN b
    ELSE LET handler == b.subscribers[channel][i]
             after == handler_call(b, handler, data)
         IN  IF after.log[Len(after.log)].raised /\ after.log[Len(after.log)].handler = handler
                /\ Len(after.log) = Len(b.log) + 1
             THEN after
             ELSE handle_local_loop_uncaught(after, channel, data, i + 1)

\* the loop of _handle_local_message, "for handler in self.subscribers[channel]",
\* from position i on: the list iterated is the one subscribe and unsubscribe
\* change, and an exception of a handler is logged
handle_local_loop(b, channel, data, i) ==
    IF i > Len(b.subscribers[channel]) THEN b
    ELSE handle_local_loop(handler_call(b, b.subscribers[channel][i], data),
                           channel, data, i + 1)

\* LocalMessageBus._handle_local_message(channel, data)
handle_local_message(b, channel, data) ==
    IF channel \notin b.keys THEN b
    ELSE handle_local_loop(b, channel, data, 1)

\* LocalMessageBus.publish_event that dispatches whether the bus runs or not
local_publish_unchecked(b, channel, msg) ==
    [bus |-> handle_local_message(b, channel, Envelope(channel, msg)), result |-> TRUE]

\* LocalMessageBus.publish_event / publish_command(channel, message)
local_publish(b, channel, msg) ==
    IF ~b.running THEN [bus |-> b, result |-> FALSE]
    ELSE [bus |-> handle_local_message(b, channel, Envelope(channel, msg)),
          result |-> TRUE]

\* publish_event of the bus in use; the call is noted in the order of the calls
publish(b, channel, msg) ==
    LET b1 == [b EXCEPT !.published = Append(@, [channel |-> channel, message |-> msg])]
    IN  IF b.kind = "LocalMessageBus" THEN local_publish(b1, channel, msg)
        ELSE broker_publish(b1, channel, msg)

\* the loop of MessageBus._handle_message over list(self.subscribers[channel]),
\* from position i on; an exception of a handler is logged
RECURSIVE handle_loop(_, _, _, _)
handle_loop(b, handlers, data, i) ==
    IF i > Len(handlers) THEN b
    ELSE handle_loop(handler_call(b, handlers[i], data), handlers, data, i + 1)

\* MessageBus._handle_message(message); a payload that is no JSON is logged
\* and dropped
handle_message(b, message) ==
    IF message.channel \notin b.keys THEN b
    ELSE LET parsed == json_loads(message.data)
         IN  IF ~parsed.ok THEN [b EXCEPT !.dropped = @ + 1]
             ELSE handle_loop(b, b.subscribers[message.channel], parsed.value, 1)

NoPublish == [called |-> FALSE, channel |-> None, message |-> NoMessage, result |-> FALSE,
              running |-> FALSE, before |-> 0]

NoDispatched == [called |-> FALSE, channel |-> None, json |-> FALSE, message |-> NoMessage,
                 before |-> 0, subscribers |-> <<>>, after |-> <<>>]

\* the bus of AexisSystem before it is built
InitBus == [kind |-> None, redis_client |-> FALSE, pubsub |-> FALSE, running |-> FALSE,
            keys |-> {}, subscribers |-> [c \in Channels |-> <<>>],
            redis_channels |-> {}, subscribe_tasks |-> {}, received |-> <<>>,
            stopped |-> FALSE,
            log |-> <<>>, published |-> <<>>, sent |-> 0, garbage |-> 0,
            registrations |-> 0, dropped |-> 0,
            last_publish |-> NoPublish, last_dispatch |-> NoDispatched]

----------------------------------------------------------------------------
(* Station: the congestion level and its alert (core/station.py)           *)
(* congestion_level is kept in thousandths.                                *)

MaxWaiting == 10     \* entries in one queue of the station whose congestion is watched
MaxAlerts == 2       \* CongestionAlert events of one station

available_bays == 4            \* Station.available_bays, never changed
AlertThreshold == 700          \* 0.7

\* Station.__init__: congestion_level 0.0, loading_bays 4, no alert published
CongestedAbove == 800     \* the level above which the status becomes CONGESTED, in thousandths
OperationalBelow == 300   \* the level below which it becomes OPERATIONAL again

InitStation ==
    [congestion_level |-> 0, loading_bays |-> 4, alerts |-> 0, alert_level |-> 0,
     status |-> "operational"]

\* the values of max_pods an UpdateCapacity command carries
MaxPods == {0, 2, 400}

\* the level _update_congestion_level computes from the queue lengths and the
\* bays: 0.4 min(1, np/20) + 0.3 min(1, nc/10) + 0.3 (1 - available/loading)
\* the level without the two min(1.0, ...) caps
congestion_uncapped(np, nc, loading_bays) ==
    20 * np + 30 * nc
       + (300 * (loading_bays - available_bays)) \div loading_bays

congestion(np, nc, loading_bays) ==
    20 * Min(np, 20) + 30 * Min(nc, 10)
       + (300 * (loading_bays - available_bays)) \div loading_bays

\* Station._update_congestion_level, the queues having np and nc entries
update_congestion_level(st, np, nc) ==
    LET level == congestion(np, nc, st.loading_bays)
    IN  [st EXCEPT !.congestion_level = level,
                   !.status = IF level > CongestedAbove THEN "congested"
                              ELSE IF level < OperationalBelow THEN "operational"
                              ELSE @]

\* Station._publish_congestion_alert: the alert carries congestion_level
publish_congestion_alert(st) ==
    IF st.congestion_level < AlertThreshold THEN st
    ELSE [st EXCEPT !.alerts = @ + 1, !.alert_level = st.congestion_level]

\* an arrival handler that publishes an alert whatever the level is
after_arrival_always(st, np, nc) ==
    IF st.loading_bays = 0 THEN st
    ELSE LET now == update_congestion_level(st, np, nc)
         IN  [now EXCEPT !.alerts = @ + 1, !.alert_level = now.congestion_level]

\* _handle_passenger_arrival / _handle_cargo_request after the append: the level
\* is computed anew and an alert published above 0.7; with loading_bays 0 the
\* division raises and _handle_passenger_event logs it
after_arrival(st, np, nc) ==
    IF st.loading_bays = 0 THEN st
    ELSE LET now == update_congestion_level(st, np, nc)
         IN  IF now.congestion_level > AlertThreshold
             THEN publish_congestion_alert(now) ELSE now

\* _handle_passenger_pickup / _handle_cargo_loading after the removal
after_removal(st, np, nc) ==
    IF st.loading_bays = 0 THEN st
    ELSE update_congestion_level(st, np, nc)

\* Station._handle_capacity_update with parameters {"max_pods": max_pods}
handle_capacity_update(st, max_pods) == [st EXCEPT !.loading_bays = max_pods]

----------------------------------------------------------------------------
(* AexisSystem: start, its loops and shutdown (core/system.py).  A loop is *)
(* at pc "sleep" between two iterations, at "busy" while a call of its     *)
(* iteration is suspended (a loading or unloading delay inside pod.update, *)
(* the routing call of make_decision, a handler of the bus), at "exited"   *)
(* when its while test has failed.                                         *)

\* AexisSystem.pods and AexisSystem.stations, in the order of .values()
SystemPods == <<"pod_001", "pod_002", "pod_003">>
SystemStations == <<s1, s2, s3>>

\* late: an iteration began after shutdown() was called; tail: a call of an
\* iteration that was in progress then was issued after it
NoLoop == [pc |-> "none", pod |-> 0, late |-> FALSE, tail |-> FALSE]

\* AexisSystem.__init__
InitSystem ==
    [running |-> FALSE, listening |-> FALSE, connected |-> TRUE, stopped |-> <<>>,
     shutdown |-> "none", physics |-> NoLoop, sweep |-> NoLoop, listener |-> NoLoop]

\* AexisSystem.start: running is set and the tasks of the loops are created
start(sys) ==
    [sys EXCEPT !.running = TRUE, !.listening = TRUE,
                !.physics.pc = "sleep", !.sweep.pc = "sleep", !.listener.pc = "get_message"]

\* the for loops of shutdown over the pods and the stations: EventProcessor.stop
RECURSIVE stop_all(_, _)
stop_all(stopped, components) ==
    IF components = <<>> THEN stopped
    ELSE stop_all(Append(stopped, Head(components)), Tail(components))

\* AexisSystem.shutdown up to its first suspension, in MessageBus.stop_listening
\* at pubsub.unsubscribe(): no call before it gives the event loop a turn
shutdown(sys) ==
    [sys EXCEPT !.running = FALSE,
                !.stopped = stop_all(stop_all(@, SystemPods), SystemStations),
                !.listening = FALSE,
                !.shutdown = "unsubscribe"]

\* ... and from one suspension to the next: pubsub.aclose() of stop_listening,
\* then disconnect() with its two aclose() calls
shutdown_step(sys) ==
    IF sys.shutdown = "unsubscribe" THEN [sys EXCEPT !.shutdown = "aclose"]
    ELSE IF sys.shutdown = "aclose" THEN [sys EXCEPT !.shutdown = "disconnect"]
    ELSE [sys EXCEPT !.shutdown = "done", !.connected = FALSE, !.listening = FALSE]

\* the while test of _simulate_pod_movement and of _periodic_decision_making
\* replaced by while True
loop_test_always(sys) == TRUE

\* the while test of _simulate_pod_movement and of _periodic_decision_making
loop_test(sys) == sys.running

\* the while test of MessageBus.start_listening
listen_test(sys) == sys.listening

\* the rest of an iteration over the pods after pod number k: the call for
\* pod j is suspended, or (j = 0) every call returned and the loop sleeps
iteration_rest(loop, k, j, called) ==
    [loop EXCEPT !.pc = IF j = 0 THEN "sleep" ELSE "busy",
                 !.pod = j,
                 !.tail = @ \/ (called /\ (j > k \/ (j = 0 /\ k < Len(SystemPods))))]

\* a loop over the pods wakes from its sleep: its while test, then the calls
\* of one iteration up to the first that is suspended
begin_iteration(sys, loop, j) ==
    IF loop_test(sys)
    THEN [iteration_rest(loop, 0, j, FALSE) EXCEPT !.late = @ \/ sys.shutdown # "none"]
    ELSE [loop EXCEPT !.pc = "exited", !.pod = 0]

\* the suspended call of pod number loop.pod runs on: it is suspended again
\* (j = loop.pod), or it returns and the iteration goes on
continue_iteration(sys, loop, j) ==
    iteration_rest(loop, loop.pod, j, sys.shutdown # "none")

\* the head of the listening loop
listen_again(sys, loop) ==
    IF listen_test(sys)
    THEN [loop EXCEPT !.pc = "get_message", !.late = @ \/ sys.shutdown # "none"]
    ELSE [loop EXCEPT !.pc = "exited"]

\* pubsub.get_message returns: no message and the loop sleeps, or a message
\* whose handlers return, or a message with a handler that is suspended
got_message(sys, loop, outcome) ==
    IF outcome = "nothing" THEN [loop EXCEPT !.pc = "sleep"]
    ELSE IF outcome = "suspended"
    THEN [loop EXCEPT !.pc = "busy", !.tail = @ \/ sys.shutdown # "none"]
    ELSE listen_again(sys, [loop EXCEPT !.tail = @ \/ sys.shutdown # "none"])

----------------------------------------------------------------------------
(* State and actions *)

ClaimKeys == ({"passenger"} \X Stations \X PassengerIds)
                 \cup ({"cargo"} \X Stations \X CargoIds)

NoClaim == [kind |-> None, station |-> None, id |-> None, pod_id |-> None,
            result |-> FALSE, before |-> <<>>]

NoUpdate == [called |-> FALSE, dt |-> 0, moving |-> FALSE, returned |-> FALSE, pos |-> 0,
             checks |-> <<>>, passed |-> <<>>, delivered |-> <<>>]

NoMoves == [route |-> <<>>, assignments |-> 0, elapsed |-> 0, capped |-> FALSE]

\* no arrival event handled by the dispatcher yet
NoDispatch == [handled |-> FALSE, station |-> None, id |-> None, docked |-> {},
               free |-> {}, asked |-> {}]

\* no call of AIRouter.route made yet
NoAIRoute == [called |-> FALSE, invoked |-> FALSE, fallback |-> FALSE, raised |-> FALSE,
              stations |-> <<>>]

\* AIDecisionEngine.last_failure: None, or the time of the failure
NoFailure == <<>>
FailureAt(t) == <<t>>

\* AIRouter.__init__ with its AIDecisionEngine (failure_count 0, last_failure
\* None); now is datetime.now(UTC) in minutes, recoveries counts the
\* successful decisions that found a failure recorded
InitAIRouter ==
    [failure_count |-> 0, last_failure |-> NoFailure, now |-> 0, recoveries |-> 0,
     last |-> NoAIRoute]

Init ==
    /\ passenger_queue = [s \in Stations |-> <<>>]
    /\ cargo_queue = [s \in Stations |-> <<>>]
    /\ pods = [p \in PodIds |-> InitPod]
    /\ last_claim = NoClaim
    /\ claim_log = [k \in ClaimKeys |-> [calls |-> 0, wins |-> 0, winner |-> None]]
    /\ last_update = [p \in PodIds |-> NoUpdate]
    /\ move_log = [p \in PodIds |-> NoMoves]
    /\ arrivals = 0
    /\ routing = InitRouting
    /\ bus = InitBus
    /\ station_state = [s \in Stations |-> InitStation]
    /\ dispatch = NoDispatch
    /\ system = InitSystem
    /\ ai_router = InitAIRouter

\* Station._handle_passenger_arrival of station s for a PassengerArrival event
PassengerArrival(s, id, dest) ==
    /\ arrivals < MaxArrivals
    /\ Len(passenger_queue[s]) < MaxQueue
    /\ passenger_queue' = [passenger_queue EXCEPT ![s] = Append(@, NewPassenger(id, dest))]
    /\ station_state' = [station_state EXCEPT ![s] =
           after_arrival(@, Len(passenger_queue[s]) + 1, Len(cargo_queue[s]))]
    /\ arrivals' = arrivals + 1
    /\ last_claim' = NoClaim
    /\ UNCHANGED <<cargo_queue, pods, claim_log, last_update, move_log, routing, bus, dispatch, system, ai_router>>

\* Station._handle_cargo_request of station s for a CargoRequest event
CargoRequest(s, id, dest, weight) ==
    /\ arrivals < MaxArrivals
    /\ Len(cargo_queue[s]) < MaxQueue
    /\ cargo_queue' = [cargo_queue EXCEPT ![s] = Append(@, NewCargo(id, dest, weight))]
    /\ station_state' = [station_state EXCEPT ![s] =
           after_arrival(@, Len(passenger_queue[s]), Len(cargo_queue[s]) + 1)]
    /\ arrivals' = arrivals + 1
    /\ last_claim' = NoClaim
    /\ UNCHANGED <<passenger_queue, pods, claim_log, last_update, move_log, routing, bus, dispatch, system, ai_router>>

RECURSIVE SumCalls(_)
SumCalls(keys) ==
    IF keys = {} THEN 0
    ELSE LET k == CHOOSE x \in keys : TRUE
         IN  claim_log[k].calls + SumCalls(keys \ {k})

\* claim calls made so far on entries that were in a queue
ClaimCalls == SumCalls(ClaimKeys)

LogClaim(kind, s, id, pod_id, found, result) ==
    [claim_log EXCEPT ![<<kind, s, id>>] =
        IF found
        THEN [calls |-> @.calls + 1,
              wins |-> IF result THEN @.wins + 1 ELSE @.wins,
              winner |-> IF result THEN pod_id ELSE @.winner]
        ELSE @]

\* a call station.claim_passenger(id, pod_id)
ClaimPassenger(s, id, pod_id) ==
    LET q == passenger_queue[s]
        result == claim_passenger_result(q, id)
    IN  /\ ClaimCalls < MaxClaimCalls
        /\ passenger_queue' = [passenger_queue EXCEPT ![s] = claim_passenger_queue(q, id, pod_id)]
        /\ last_claim' = [kind |-> "passenger", station |-> s, id |-> id, pod_id |-> pod_id,
                          result |-> result, before |-> q]
        /\ claim_log' = LogClaim("passenger", s, id, pod_id, FirstPassenger(q, id) # 0, result)
        /\ UNCHANGED <<cargo_queue, pods, last_update, move_log, arrivals, routing, bus, station_state, dispatch, system, ai_router>>

\* a call station.claim_cargo(id, pod_id)
ClaimCargo(s, id, pod_id) ==
    LET q == cargo_queue[s]
        result == claim_cargo_result(q, id)
    IN  /\ ClaimCalls < MaxClaimCalls
        /\ cargo_queue' = [cargo_queue EXCEPT ![s] = claim_cargo_queue(q, id, pod_id)]
        /\ last_claim' = [kind |-> "cargo", station |-> s, id |-> id, pod_id |-> pod_id,
                          result |-> result, before |-> q]
        /\ claim_log' = LogClaim("cargo", s, id, pod_id, FirstCargo(q, id) # 0, result)
        /\ UNCHANGED <<passenger_queue, pods, last_update, move_log, arrivals, routing, bus, station_state, dispatch, system, ai_router>>

\* the record the pod operators work on, for a call on pod p
World(p) ==
    [pq |-> passenger_queue, cq |-> cargo_queue, pod |-> pods[p], id |-> p,
     pos |-> 0, checks |-> <<>>, passed |-> <<>>, delivered |-> <<>>]

\* AexisSystem._populate_pod_requests: every entry of every station queue of
\* the pod's type, claimed or not
RECURSIVE populate_from(_, _, _, _)
populate_from(p, pqs, cqs, stations) ==
    IF stations = <<>> THEN <<>>
    ELSE LET s == Head(stations)
             pq == pqs[s]
             cq == cqs[s]
             here == IF p \in CargoPods
                     THEN [i \in 1..Len(cq) |->
                              [type |-> "cargo", passenger_id |-> None,
                               request_id |-> cq[i].request_id, origin |-> s,
                               destination |-> cq[i].destination, weight |-> cq[i].weight]]
                     ELSE [i \in 1..Len(pq) |->
                              [type |-> "passenger", passenger_id |-> pq[i].passenger_id,
                               request_id |-> None, origin |-> s,
                               destination |-> pq[i].destination, weight |-> 0]]
         IN  here \o populate_from(p, pqs, cqs, Tail(stations))

\* ... on the queues as they are now
populate_pod_requests(p, stations) ==
    populate_from(p, passenger_queue, cargo_queue, stations)

\* the record of the update() calls starts anew with a route, unless a call is
\* suspended in a delay
Accepted(p) ==
    last_update' = [last_update EXCEPT ![p] =
                       IF pods[p].task.pc = "none" THEN NoUpdate ELSE @]

\* a command AssignRoute with a list of station ids reaches pod p
\* (Pod._handle_route_assignment)
AssignRoute(p, stations) ==
    /\ move_log[p].assignments < MaxAssignments
    /\ pods' = [pods EXCEPT ![p] = handle_route_assignment(@, stations)]
    /\ move_log' = [move_log EXCEPT ![p] =
                       [route |-> stations, assignments |-> @.assignments + 1,
                        elapsed |-> 0, capped |-> FALSE]]
    /\ Accepted(p)
    /\ last_claim' = NoClaim
    /\ UNCHANGED <<passenger_queue, cargo_queue, claim_log, arrivals, routing, bus, station_state, dispatch, system, ai_router>>

\* one turn of AexisSystem._periodic_decision_making for the idle pod p: its
\* requests are populated and make_decision runs, the routing provider
\* answering with the station list stations
Decide(p, stations) ==
    /\ pods[p].status = IDLE
    /\ move_log[p].assignments < MaxAssignments
    /\ pods' = [pods EXCEPT ![p] =
                   execute_decision(
                       [@ EXCEPT !.available_requests =
                                    populate_pod_requests(p, <<s1, s2, s3>>)],
                       stations)]
    /\ move_log' = [move_log EXCEPT ![p] =
                       [route |-> stations, assignments |-> @.assignments + 1,
                        elapsed |-> 0, capped |-> FALSE]]
    /\ Accepted(p)
    /\ last_claim' = NoClaim
    /\ UNCHANGED <<passenger_queue, cargo_queue, claim_log, arrivals, routing, bus, station_state, dispatch, system, ai_router>>

\* what a call that has run to its next delay or to its end leaves behind
Settle(p, w) ==
    /\ pods' = [pods EXCEPT ![p] = w.pod]
    /\ passenger_queue' = w.pq
    /\ cargo_queue' = w.cq
    /\ station_state' = [s \in Stations |->
           IF Len(w.pq[s]) # Len(passenger_queue[s]) \/ Len(w.cq[s]) # Len(cargo_queue[s])
           THEN after_removal(station_state[s], Len(w.pq[s]), Len(w.cq[s]))
           ELSE station_state[s]]
    /\ last_claim' = NoClaim
    /\ UNCHANGED <<claim_log, arrivals, routing, bus, dispatch, system, ai_router>>

\* update(dt) does something: the pod is EN_ROUTE and has a current segment
Moving(pod) == pod.status = EN_ROUTE /\ pod.current_segment # NoSegment

\* a call pod.update(dt) on pod p, up to its first delay or to its end; a pod
\* is moved for MaxElapsed seconds per route at most, and elapsed stops
\* counting one past that
Update(p, dt) ==
    /\ pods[p].task.pc = "none"
    /\ Moving(pods[p]) => move_log[p].elapsed + dt <= MaxElapsed
    /\ \E w \in {update(World(p), dt)} :
        /\ Settle(p, w)
        /\ last_update' = [last_update EXCEPT ![p] =
               [called |-> TRUE, dt |-> dt,
                moving |-> Moving(pods[p]),
                returned |-> ~Suspended(w), pos |-> w.pos,
                checks |-> w.checks, passed |-> w.passed, delivered |-> w.delivered]]
        /\ move_log' = [move_log EXCEPT ![p] =
               [@ EXCEPT !.elapsed = Min(@ + dt, MaxElapsed + 1),
                         !.capped = @ \/ speed * dt > MaxTickDistance]]

\* the loading or unloading delay of pod p ends
ResumePod(p) ==
    /\ pods[p].task.pc # "none"
    /\ \E w \in {resume([World(p) EXCEPT !.pos = last_update[p].pos,
                                         !.checks = last_update[p].checks,
                                         !.delivered = last_update[p].delivered,
                                         !.passed = last_update[p].passed])} :
        /\ Settle(p, w)
        /\ last_update' = [last_update EXCEPT ![p] =
               [@ EXCEPT !.returned = ~Suspended(w), !.pos = w.pos,
                         !.checks = w.checks, !.passed = w.passed,
                         !.delivered = w.delivered]]
        /\ UNCHANGED move_log

\* the station list of an AssignRoute command or of a routing decision
Routes == {<<s1>>, <<s1, s2>>, <<s2, s1>>, <<s2, s3>>, <<s1, s2, s3>>, <<s3, s2, s1>>}

\* the station claim API under arrivals at one station and claim calls in the
\* name of any pod, in any order
ClaimNext ==
    \/ \E id \in PassengerIds : PassengerArrival(s1, id, s2)
    \/ \E id \in CargoIds : CargoRequest(s1, id, s2, 200)
    \/ \E id \in PassengerIds, p \in PodIds : ClaimPassenger(s1, id, p)
    \/ \E id \in CargoIds, p \in PodIds : ClaimCargo(s1, id, p)

SpecClaim == Init /\ [][ClaimNext]_vars

QueueOf(kind, s) == IF kind = "passenger" THEN passenger_queue[s] ELSE cargo_queue[s]

FirstEntry(kind, q, id) == IF kind = "passenger" THEN FirstPassenger(q, id) ELSE FirstCargo(q, id)

\* C1 (claim uniqueness): whenever two or more claim calls have been made for
\* an entry of a station queue, by whatever pods and in whatever order, exactly
\* one of them returned true and the entry's claimed_by is that call's pod id.
ClaimUniqueness ==
    \A k \in ClaimKeys :
        LET q == QueueOf(k[1], k[2])
            i == FirstEntry(k[1], q, k[3])
        IN  claim_log[k].calls >= 2 =>
                /\ claim_log[k].wins = 1
                /\ i # 0
                /\ q[i].claimed_by = claim_log[k].winner

\* a third call by a pod that is not the winner has just lost
ClaimUniquenessWitness ==
    /\ last_claim.kind = "passenger"
    /\ ~last_claim.result
    /\ claim_log[<<"passenger", last_claim.station, last_claim.id>>].calls >= 3
    /\ claim_log[<<"passenger", last_claim.station, last_claim.id>>].wins = 1
    /\ claim_log[<<"passenger", last_claim.station, last_claim.id>>].winner # last_claim.pod_id

\* C4 (re-claim and unknown ids): a claim call on an entry that is already
\* claimed, or on an id that is not in the queue, returns false and leaves the
\* station's queue exactly as it was before the call.
ClaimRefused ==
    last_claim.kind # None =>
        LET q == last_claim.before
            i == FirstEntry(last_claim.kind, q, last_claim.id)
        IN  (i = 0 \/ Truthy(q[i].claimed_by)) =>
                /\ ~last_claim.result
                /\ QueueOf(last_claim.kind, last_claim.station) = q

\* a pod has just called for an entry that another pod holds, next to an
\* unclaimed entry of the same queue
ClaimRefusedWitness ==
    /\ last_claim.kind = "passenger"
    /\ Len(last_claim.before) = 2
    /\ LET q == last_claim.before
           i == FirstPassenger(q, last_claim.id)
       IN  /\ i # 0
           /\ Truthy(q[i].claimed_by)
           /\ q[i].claimed_by # last_claim.pod_id
           /\ \E j \in 1..Len(q) : ~Truthy(q[j].claimed_by)

----------------------------------------------------------------------------
(* Movement: a passenger pod takes routes and update() calls; no payload   *)

MoveNext ==
    \/ \E r \in Routes \cup {<<>>} : AssignRoute("pod_001", r)
    \/ \E r \in Routes : Decide("pod_001", r)
    \/ \E dt \in 1..MaxElapsed : Update("pod_001", dt)

SpecMove == Init /\ [][MoveNext]_vars

\* an endless supply of update() calls
LiveSpec == SpecMove /\ WF_vars(\E dt \in 1..MaxElapsed : Update("pod_001", dt))

RouteLength(stations) ==
    LET segs == Segments(stations)
        RECURSIVE Sum(_)
        Sum(q) == IF q = <<>> THEN 0 ELSE Length(Head(q)) + Sum(Tail(q))
    IN  Sum(segs)

Last(seq) == seq[Len(seq)]

\* the state the claims call a completed route
RouteCompleted(p, stations) ==
    /\ pods[p].current_segment = NoSegment
    /\ pods[p].route_queue = <<>>
    /\ pods[p].status = IDLE
    /\ pods[p].location_descriptor.location_type = "station"
    /\ location(pods[p]) = Last(stations)

\* C7 (movement conservation): a pod that took a two-edge route of lengths L1
\* and L2 and then got one call update(dt) with speed * dt = L1 + L2, within
\* the cap of a tick, has no current segment, an empty segment queue, status
\* IDLE and its location at the route's last station.
MovementConservation ==
    \A p \in PodIds :
        LET m == move_log[p]
            u == last_update[p]
        IN  (/\ Len(m.route) = 3
             /\ u.called /\ u.returned /\ u.moving
             /\ u.dt = m.elapsed
             /\ speed * u.dt = RouteLength(m.route)
             /\ speed * u.dt <= MaxTickDistance)
            => RouteCompleted(p, m.route)

\* the first state of a pod that takes the route stations, and the state one
\* call update(dt) leaves it in
SingleCall(p, stations, dt) ==
    update([World(p) EXCEPT !.pod = handle_route_assignment(InitPod, stations)], dt).pod

\* C8 (tick-size independence): with no payload at any station, a pod that
\* took a route and got update() calls, each within the cap of a tick, whose
\* dt sum to a total that is itself within the cap, has the location, current
\* segment, segment progress and status that the single call update(total)
\* gives.
TickSizeIndependence ==
    \A p \in PodIds :
        LET m == move_log[p]
            one == SingleCall(p, m.route, m.elapsed)
        IN  (/\ m.assignments = 1 /\ m.route # <<>>
             /\ m.elapsed > 0 /\ ~m.capped
             /\ speed * m.elapsed <= MaxTickDistance)
            => /\ pods[p].location_descriptor = one.location_descriptor
               /\ pods[p].current_segment = one.current_segment
               /\ pods[p].segment_progress = one.segment_progress
               /\ pods[p].status = one.status

\* C9 (route completion liveness): a pod that has taken a non-empty station
\* list and keeps getting update() calls eventually is IDLE with no segments
\* left at the last station of the list, unless another command or decision
\* reaches it first.
RouteCompletionLiveness ==
    \A n \in 1..MaxAssignments : \A r \in Routes :
        (move_log["pod_001"].assignments = n /\ move_log["pod_001"].route = r)
            ~> (move_log["pod_001"].assignments # n \/ RouteCompleted("pod_001", r))

----------------------------------------------------------------------------------------------------------------------------------------
(* The passenger service of station_001: arrivals there, the dispatcher's  *)
(* decisions for a pod built with the station dict (pod_001) and for one   *)
(* built without it (pod_002), update() calls and the ends of the loading  *)
(* and unloading delays, in any order                                      *)

Next ==
    \/ \E id \in PassengerIds : PassengerArrival(s1, id, s2)
    \/ \E p \in PassengerPods, r \in {<<s2, s1>>, <<s1, s2>>} : Decide(p, r)
    \/ \E p \in PassengerPods, dt \in {2, 3} : Moving(pods[p]) /\ Update(p, dt)
    \/ \E p \in PassengerPods : ResumePod(p)

Spec == Init /\ [][Next]_vars

----------------------------------------------------------------------------
(* The cargo service of station_001, with the cargo pod pod_003            *)

CargoNext ==
    \/ \E id \in CargoIds, weight \in Weights : CargoRequest(s1, id, s2, weight)
    \/ \E r \in {<<s2, s1>>, <<s1, s2>>} : Decide("pod_003", r)
    \/ \E dt \in {2, 3} : Moving(pods["pod_003"]) /\ Update("pod_003", dt)
    \/ ResumePod("pod_003")

SpecCargo == Init /\ [][CargoNext]_vars

----------------------------------------------------------------------------
(* Claims about pickups *)

\* how often the request id is in a passenger manifest or a passenger queue
Aboard(manifest, id) ==
    LET same(e) == e.passenger_id = id IN Len(SelectSeq(manifest, same))

\* how often the request id is in a cargo manifest
Loaded(manifest, id) ==
    LET same(e) == e.request_id = id IN Len(SelectSeq(manifest, same))

RECURSIVE Total(_, _)
Total(count(_), ps) ==
    IF ps = {} THEN 0
    ELSE LET p == CHOOSE x \in ps : TRUE IN count(p) + Total(count, ps \ {p})

\* C2 (no double pickup): a request id is in the onboard manifest of at most
\* one pod, and at most once in it.
NoDoublePickup ==
    /\ \A id \in PassengerIds :
           LET count(p) == Aboard(pods[p].passengers, id) IN Total(count, PodIds) <= 1
    /\ \A id \in CargoIds :
           LET count(p) == Loaded(pods[p].cargo, id) IN Total(count, PodIds) <= 1

\* how often the entry e is in the queue q
Entries(q, e) == LET same(x) == x = e IN Len(SelectSeq(q, same))

CapacityInvariant ==
    \A p \in PodIds :
        /\ Len(pods[p].passengers) <= capacity
        /\ pods[p].current_weight <= weight_capacity

-----------------------------------------------------------------------------
(* Idle pods *)

\* C11 (no automatic re-departure): over every step that is not the handling
\* of an AssignRoute command or the execution of a routing decision for pod p,
\* a pod p that is IDLE keeps its status, location, route state and manifest;
\* update(dt) calls in particular leave it as it is.
NoAutomaticRedeparture ==
    [][\A p \in PodIds :
          (/\ pods[p].status = IDLE
           /\ move_log'[p].assignments = move_log[p].assignments)
          => pods'[p] = pods[p]]_vars

\* a pod that completed a route away from its first station and has been
\* called with update(dt) since, while idle
NoAutomaticRedepartureWitness ==
    LET m == move_log["pod_001"]
    IN  /\ Len(m.route) >= 2
        /\ RouteCompleted("pod_001", m.route)
        /\ Last(m.route) # s1
        /\ last_update["pod_001"].called
        /\ ~last_update["pod_001"].moving

-----------------------------------------------------------------------------
(* The router chain *)

\* RoutingProvider.add_router(router) for a Router instance
AddRouter(router) ==
    /\ Len(routing.routers) < MaxRouters
    /\ routing' = [routers |-> Append(routing.routers, router), call |-> NoCall]
    /\ UNCHANGED <<passenger_queue, cargo_queue, pods, last_claim, claim_log,
                   last_update, move_log, arrivals, bus, station_state, dispatch, system, ai_router>>

\* a call RoutingProvider.route(context)
CallRoute ==
    /\ \E r \in {provider_route(routing.routers)} :
           routing' = [routing EXCEPT !.call =
                          [called |-> TRUE, raised |-> r.raised, error |-> r.error,
                           route |-> r.route, invoked |-> r.invoked,
                           published |-> FALSE, escaped |-> FALSE]]
    /\ UNCHANGED <<passenger_queue, cargo_queue, pods, last_claim, claim_log,
                   last_update, move_log, arrivals, bus, station_state, dispatch, system, ai_router>>

RoutingNext ==
    \/ \E router \in RouterBehaviours : AddRouter(router)
    \/ CallRoute

SpecRouting == Init /\ [][RoutingNext]_vars

\* the registration indexes 1..n, in order
UpTo(n) == [i \in 1..n |-> i]

\* a router that returns a route with a non-empty station list
YieldsStations(router) == router.kind = "route" /\ router.stations # <<>>

\* a router that returns a Route object
YieldsRoute(router) == router.kind = "route"

\* C13 (router chain order): a call of route() invokes the routers in registration
\* order up to and including the first one that returns a route with a
\* non-empty station list, returns that router's route and invokes no router
\* after it; routers that raise, return None or return a route with an empty
\* station list are passed over.
RouterChainOrder ==
    LET rs == routing.routers
        winners == {i \in 1..Len(rs) : YieldsStations(rs[i])}
    IN  routing.call.called =>
            IF winners = {}
            THEN routing.call.invoked = UpTo(Len(rs))
            ELSE LET first == CHOOSE i \in winners : \A j \in winners : i <= j
                 IN  /\ routing.call.invoked = UpTo(first)
                     /\ ~routing.call.raised
                     /\ routing.call.route = Route(rs[first].stations)

\* C14 (routing escalation): a call of route() raises, and then the
\* ValueError of the provider, exactly when no router is configured or every
\* router raised or returned None; otherwise it returns a Route object.
RoutingEscalation ==
    LET rs == routing.routers
    IN  routing.call.called =>
            /\ routing.call.raised <=> (\A i \in 1..Len(rs) : ~YieldsRoute(rs[i]))
            /\ routing.call.raised => routing.call.error = "ValueError"
            /\ ~routing.call.raised => routing.call.route.present

\* a chain of two or more routers, one of which raised a generic exception,
\* none of which gave a route: the call raised
RoutingEscalationWitness ==
    /\ routing.call.called
    /\ routing.call.raised
    /\ Len(routing.routers) >= 2
    /\ \E i \in 1..Len(routing.routers) : routing.routers[i].kind = "Exception"

-----------------------------------------------------------------------------
(* The offline router and the dispatcher (core/routing.py, core/system.py) *)

\* the graph of the network: the stations lie on one line, each linked to
\* the next
Line == <<s1, s2, s3>>

IndexOf(s) == CHOOSE i \in 1..Len(Line) : Line[i] = s

\* nx.shortest_path(network_graph, a, b)
shortest_path(a, b) ==
    LET i == IndexOf(a)
        j == IndexOf(b)
    IN  IF i <= j THEN [k \in 1..(j - i + 1) |-> Line[i + k - 1]]
        ELSE [k \in 1..(i - j + 1) |-> Line[i - k + 1]]

\* NetworkContext.calculate_distance
calculate_distance(a, b) == Abs(station_positions(a) - station_positions(b))

\* the coordinate of a location descriptor, on the line
Coordinate(ld) ==
    IF ld.location_type = "station" THEN station_positions(ld.node_id)
    ELSE LET a == station_positions(ld.edge_id.start_node)
             b == station_positions(ld.edge_id.end_node)
         IN  IF a <= b THEN a + ld.distance_on_edge ELSE a - ld.distance_on_edge

\* NetworkContext.get_nearest_station: the first station, in the order of
\* station_positions, at the least distance
get_nearest_station(x) ==
    LET d(i) == Abs(x - station_positions(Line[i]))
        best == CHOOSE i \in 1..Len(Line) :
                    /\ \A j \in 1..Len(Line) : d(i) <= d(j)
                    /\ \A j \in 1..(i - 1) : d(j) > d(i)
    IN  Line[best]

\* PassengerPod / CargoPod._build_decision_context
build_decision_context(pod, p) ==
    [current_location |->
         IF pod.location_descriptor.location_type = "station"
         THEN pod.location_descriptor.node_id
         ELSE get_nearest_station(Coordinate(pod.location_descriptor)),
     capacity_available |-> IF p \in CargoPods THEN 0 ELSE capacity - Len(pod.passengers),
     weight_available |-> IF p \in CargoPods THEN weight_capacity - pod.current_weight ELSE 0,
     available_requests |-> pod.available_requests]

\* OfflineRoutingStrategy._extract_destinations
extract_destinations(context) ==
    LET is_passenger_pod == context.capacity_available >= 0 /\ context.weight_available = 0
        is_cargo_pod == context.weight_available > 0 /\ context.capacity_available = 0
        reqs == context.available_requests
        valid(r) == /\ ~(is_passenger_pod /\ r.type # "passenger")
                    /\ ~(is_cargo_pod /\ r.type # "cargo")
                    /\ r.destination # ""
                    /\ r.destination # context.current_location
    IN  {reqs[i].destination : i \in {k \in 1..Len(reqs) : valid(reqs[k])}}

\* OfflineRoutingStrategy._find_nearest_station; on this line no two stations
\* are at the same distance of a third
find_nearest_station(current, candidates) ==
    CHOOSE c \in candidates :
        \A o \in candidates : calculate_distance(current, c) <= calculate_distance(current, o)

\* OfflineRoutingStrategy._solve_traveling_salesman, after full_route = [start]
RECURSIVE solve_traveling_salesman(_, _)
solve_traveling_salesman(current, unvisited) ==
    IF unvisited = {} THEN <<>>
    ELSE LET nearest == find_nearest_station(current, unvisited)
         IN  Tail(shortest_path(current, nearest))
                 \o solve_traveling_salesman(nearest, unvisited \ {nearest})

\* OfflineRoutingStrategy.calculate_optimal_route: the station list
calculate_optimal_route(context) ==
    LET destinations == extract_destinations(context)
    IN  IF context.available_requests = <<>> \/ destinations = {}
        THEN <<context.current_location>>
        ELSE <<context.current_location>>
                 \o solve_traveling_salesman(context.current_location, destinations)

\* the provider AexisSystem._create_routing_provider builds for a pod, seen
\* from one call: the OfflineRouter, first in the chain, returns its route
create_routing_provider(context) ==
    <<[kind |-> "route", stations |-> calculate_optimal_route(context)]>>

\* Pod.make_decision
make_decision(pod, p) ==
    LET route == provider_route(create_routing_provider(build_decision_context(pod, p)))
    IN  IF route.raised THEN pod ELSE execute_decision(pod, route.route.stations)

\* AexisSystem._pod_is_at_station
pod_is_at_station(pod, station_id) ==
    \/ /\ pod.location_descriptor.location_type = "station"
       /\ pod.location_descriptor.node_id = station_id
    \/ /\ pod.location_descriptor.location_type = "edge"
       /\ pod.current_segment # NoSegment
       /\ (pod.current_segment.start_node = station_id
              \/ pod.current_segment.end_node = station_id)
       /\ pod.segment_progress < 5

\* the request AexisSystem._handle_event builds from a PassengerArrival event
seeded_request(s, id, dest) ==
    [type |-> "passenger", passenger_id |-> id, request_id |-> None, origin |-> s,
     destination |-> dest, weight |-> 0]

\* the body both loops of _handle_event run for a pod: its requests are
\* populated, the seeded request is added unless its passenger_id is among
\* them, and the pod decides if it has any request
trigger_pod(pod, p, pq, cq, seed) ==
    LET listed == populate_from(p, pq, cq, Line)
        known == \E i \in 1..Len(listed) : listed[i].passenger_id = seed.passenger_id
        reqs == IF seed.passenger_id # "" /\ ~known THEN Append(listed, seed) ELSE listed
        ready == [pod EXCEPT !.available_requests = reqs]
    IN  IF reqs # <<>> THEN make_decision(ready, p) ELSE ready

\* the pods the first loop of _handle_event handles: idle and at the station
DockedIdle(ps, station_id) ==
    {p \in PodIds : ps[p].status = IDLE /\ pod_is_at_station(ps[p], station_id)}

\* the pods the second loop handles: idle, after the first loop, and not at
\* the station
ElsewhereIdle(ps, station_id) ==
    {p \in PodIds : ps[p].status = IDLE /\ ~pod_is_at_station(ps[p], station_id)}

\* AexisSystem._handle_event for a PassengerArrival event: the pods after it
handle_event(ps, pq, cq, s, id, dest) ==
    LET seed == seeded_request(s, id, dest)
        first == [p \in PodIds |->
                     IF p \in DockedIdle(ps, s) THEN trigger_pod(ps[p], p, pq, cq, seed)
                     ELSE ps[p]]
    IN  [p \in PodIds |->
            IF p \in ElsewhereIdle(first, s) THEN trigger_pod(first[p], p, pq, cq, seed)
            ELSE first[p]]

\* a PassengerArrival event is published on the passenger channel: the
\* station's handler queues the passenger, then the dispatcher's handler runs
PublishPassengerArrival(s, id, dest) ==
    /\ arrivals < MaxArrivals
    /\ Len(passenger_queue[s]) < MaxQueue
    /\ \E pq \in {[passenger_queue EXCEPT ![s] = Append(@, NewPassenger(id, dest))]} :
        /\ passenger_queue' = pq
        /\ station_state' = [station_state EXCEPT ![s] =
               after_arrival(@, Len(pq[s]), Len(cargo_queue[s]))]
        /\ \E after \in {handle_event(pods, pq, cargo_queue, s, id, dest)} :
            /\ pods' = after
            /\ dispatch' = [handled |-> TRUE, station |-> s, id |-> id,
                            docked |-> DockedIdle(pods, s),
                            free |-> {p \in DockedIdle(pods, s) \cap PassengerPods :
                                         Len(pods[p].passengers) < capacity},
                            asked |-> {p \in PodIds :
                                          /\ pods[p].status = IDLE
                                          /\ after[p].available_requests # <<>>}]
            /\ move_log' = [p \in PodIds |->
                               IF after[p].status # pods[p].status
                                  \/ after[p].current_route # pods[p].current_route
                               THEN [route |-> after[p].current_route.stations,
                                     assignments |-> Min(move_log[p].assignments + 1,
                                                         MaxAssignments),
                                     elapsed |-> 0, capped |-> FALSE]
                               ELSE move_log[p]]
            /\ last_update' = [p \in PodIds |->
                                  IF after[p] # pods[p] /\ pods[p].task.pc = "none"
                                  THEN NoUpdate ELSE last_update[p]]
    /\ arrivals' = arrivals + 1
    /\ last_claim' = NoClaim
    /\ UNCHANGED <<cargo_queue, claim_log, routing, bus, system, ai_router>>

\* one turn of AexisSystem._periodic_decision_making for the idle pod p, the
\* route coming from the pod's routing provider
PeriodicDecision(p) ==
    /\ pods[p].status = IDLE
    /\ pods[p].task.pc = "none"
    /\ move_log[p].assignments < MaxAssignments
    /\ \E after \in {make_decision([pods[p] EXCEPT !.available_requests =
                                       populate_pod_requests(p, Line)], p)} :
        /\ pods' = [pods EXCEPT ![p] = after]
        /\ move_log' = [move_log EXCEPT ![p] =
                           [route |-> after.current_route.stations,
                            assignments |-> @.assignments + 1,
                            elapsed |-> 0, capped |-> FALSE]]
    /\ Accepted(p)
    /\ last_claim' = NoClaim
    /\ UNCHANGED <<passenger_queue, cargo_queue, claim_log, arrivals, routing, bus, station_state,
                   dispatch, system, ai_router>>

\* passenger id waits in queue q
Waiting(q, id) == \E i \in 1..Len(q) : q[i].passenger_id = id

\* a passenger id that is neither waiting at a station nor aboard a pod
Fresh(id) ==
    /\ \A s \in Stations : ~Waiting(passenger_queue[s], id)
    /\ \A p \in PassengerPods : Aboard(pods[p].passengers, id) = 0

\* the dispatcher at work: passengers for the second station arrive at the
\* first, a route command may send the second pod away, the pods are moved
\* and the periodic sweep decides for idle pods
DispatchNext ==
    \/ \E id \in PassengerIds : Fresh(id) /\ PublishPassengerArrival(s1, id, s2)
    \/ AssignRoute("pod_002", <<s1, s2>>)
    \/ \E p \in PassengerPods, dt \in {2, 3} : Update(p, dt)
    \/ \E p \in PassengerPods : PeriodicDecision(p)

SpecDispatch == Init /\ [][DispatchNext]_vars

\* a docked pod and its passenger: passenger p1 arrives at the first station
\* for the second, passenger p2 at the second for the first; the first pod is
\* moved and the periodic sweep decides for it when it is idle
PickupNext ==
    \/ Fresh("p1") /\ PublishPassengerArrival(s1, "p1", s2)
    \/ Fresh("p2") /\ PublishPassengerArrival(s2, "p2", s1)
    \/ \E dt \in {2, 3} : Update("pod_001", dt)
    \/ ResumePod("pod_001")
    \/ PeriodicDecision("pod_001")

SpecPickup == Init /\ [][PickupNext]_vars

\* the movement loop keeps calling update() on the pod, a loading or
\* unloading delay ends, and the periodic sweep comes round
LivePickup ==
    /\ SpecPickup
    /\ WF_vars(\E dt \in {2, 3} : Update("pod_001", dt))
    /\ WF_vars(ResumePod("pod_001"))
    /\ WF_vars(PeriodicDecision("pod_001"))

\* pod p is idle and has accepted as many routes as a run gives it
OutOfDecisions(p) == pods[p].status = IDLE /\ move_log[p].assignments >= MaxAssignments

\* C12 (docked-pod pickup liveness): when the PassengerArrival of p1 at the
\* first station has been handled while the first pod was docked there, idle
\* and with free capacity, then eventually p1 is in the manifest of that pod
\* and no longer in the queue of the station (or the pod is left idle with no
\* decision to come in the run).
DockedPickupLiveness ==
    (/\ dispatch.handled /\ dispatch.station = s1 /\ dispatch.id = "p1"
     /\ "pod_001" \in dispatch.free)
    ~> \/ /\ Aboard(pods["pod_001"].passengers, "p1") > 0
          /\ ~Waiting(passenger_queue[s1], "p1")
       \/ OutOfDecisions("pod_001")

\* C20 (dispatcher preference): when an arrival event found an idle pod
\* docked at its station, a docked pod was asked to decide and no pod
\* elsewhere was.
DispatcherPreference ==
    (dispatch.handled /\ dispatch.docked # {})
    => /\ dispatch.asked \cap dispatch.docked # {}
       /\ dispatch.asked \subseteq dispatch.docked

----------------------------------------------------------------------------
(* The message buses: actions *)

OtherVars == <<passenger_queue, cargo_queue, pods, last_claim, claim_log, last_update,
               move_log, arrivals, routing, station_state, dispatch, system, ai_router>>

\* AexisSystem.__init__: the bus is a LocalMessageBus or a MessageBus
CreateBus(kind) ==
    /\ bus.kind = None
    /\ bus' = [bus EXCEPT !.kind = kind]
    /\ UNCHANGED OtherVars

\* MessageBus.connect() that reaches the broker / LocalMessageBus.connect()
Connect ==
    /\ bus.kind # None
    /\ ~bus.stopped
    /\ IF bus.kind = "LocalMessageBus"
       THEN bus' = [bus EXCEPT !.running = TRUE]
       ELSE /\ ~bus.redis_client
            /\ bus' = [bus EXCEPT !.redis_client = TRUE, !.pubsub = TRUE]
    /\ UNCHANGED OtherVars

\* start_listening(): the local bus only sets running; the broker-backed bus
\* subscribes its pubsub to every channel that has a handler list and enters
\* its loop
StartListening ==
    /\ bus.kind # None
    /\ ~bus.running
    /\ ~bus.stopped
    /\ IF bus.kind = "LocalMessageBus"
       THEN bus' = [bus EXCEPT !.running = TRUE]
       ELSE /\ bus.pubsub
            /\ bus' = [bus EXCEPT !.running = TRUE, !.redis_channels = @ \cup bus.keys]
    /\ UNCHANGED OtherVars

\* stop_listening(): the broker-backed bus also unsubscribes and closes its
\* pubsub, which is not used again
StopListening ==
    /\ bus.kind # None
    /\ bus.running
    /\ IF bus.kind = "LocalMessageBus"
       THEN bus' = [bus EXCEPT !.running = FALSE]
       ELSE bus' = [bus EXCEPT !.running = FALSE, !.redis_channels = {},
                               !.subscribe_tasks = {}, !.received = <<>>,
                               !.stopped = TRUE]
    /\ UNCHANGED OtherVars

\* a subscribe(channel, handler) call from outside a handler
Subscribe(channel, handler) ==
    /\ bus.kind # None
    /\ Len(bus.subscribers[channel]) < MaxHandlers
    /\ ~InList(bus.subscribers[channel], handler)
    /\ bus.registrations < MaxRegistrations
    /\ bus' = [subscribe(bus, channel, handler) EXCEPT !.registrations = @ + 1]
    /\ UNCHANGED OtherVars

\* an unsubscribe(channel, handler) call from outside a handler
Unsubscribe(channel, handler) ==
    /\ bus.kind # None
    /\ InList(bus.subscribers[channel], handler)
    /\ bus.registrations < MaxRegistrations
    /\ bus' = [unsubscribe(bus, channel, handler) EXCEPT !.registrations = @ + 1]
    /\ UNCHANGED OtherVars

\* the publish call of the bus in use, made from outside a handler, with what
\* it returned; the local bus has dispatched the message when it returns
Published(channel, msg) ==
    \E r \in {publish(bus, channel, msg)} :
        bus' = [r.bus EXCEPT
                  !.sent = @ + 1,
                  !.last_publish = [called |-> TRUE, channel |-> channel, message |-> msg,
                                    result |-> r.result, running |-> bus.running,
                                    before |-> Len(bus.log)],
                  !.last_dispatch =
                      IF bus.kind = "LocalMessageBus" /\ r.result
                      THEN [called |-> TRUE, channel |-> channel, json |-> TRUE,
                            message |-> msg, before |-> Len(bus.log),
                            subscribers |-> bus.subscribers[channel],
                            after |-> r.bus.subscribers[channel]]
                      ELSE @]

\* publish_event(channel, event) on the channel of the passenger events
PublishEvent ==
    /\ bus.kind # None
    /\ bus.sent < MaxPublishes
    /\ Published(PASSENGER_EVENTS, Event(bus.sent + 1))
    /\ UNCHANGED OtherVars

\* publish_command(channel, command) on the channel of the pod commands
PublishCommand ==
    /\ bus.kind # None
    /\ bus.sent < MaxPublishes
    /\ Published(POD_COMMANDS, Command(bus.sent + 1))
    /\ UNCHANGED OtherVars

\* redis_client.publish(channel, "this is not json { [ }"): a payload written
\* to the broker past the bus (test_invalid_json_handling)
RedisPublishRaw(channel) ==
    /\ bus.kind = "MessageBus"
    /\ bus.redis_client
    /\ bus.garbage < MaxGarbage
    /\ bus' = [redis_publish(bus, channel, NotJson(channel)) EXCEPT !.garbage = @ + 1]
    /\ UNCHANGED OtherVars

\* the task MessageBus.subscribe created subscribes the pubsub to the channel
CompleteSubscribe(channel) ==
    /\ channel \in bus.subscribe_tasks
    /\ bus' = [bus EXCEPT !.subscribe_tasks = @ \ {channel},
                          !.redis_channels = @ \cup {channel}]
    /\ UNCHANGED OtherVars

\* one round of the loop of MessageBus.start_listening that gets a message
Listen ==
    /\ bus.kind = "MessageBus"
    /\ bus.running
    /\ bus.received # <<>>
    /\ \E message \in {Head(bus.received)} :
       \E b \in {handle_message([bus EXCEPT !.received = Tail(@)], message)} :
           bus' = [b EXCEPT !.last_dispatch =
                      [called |-> TRUE, channel |-> message.channel,
                       json |-> message.data.json, message |-> message.data.text.message,
                       before |-> Len(bus.log),
                       subscribers |-> bus.subscribers[message.channel],
                       after |-> b.subscribers[message.channel]]]
    /\ UNCHANGED OtherVars

\* the handlers subscribed from outside, per channel
Subscribable(channel) ==
    IF channel = PASSENGER_EVENTS THEN Handlers \ {"late_handler"}
    ELSE {"valid_handler", "error_prone_handler"}

BusNext ==
    \/ \E kind \in BusKinds : CreateBus(kind)
    \/ Connect
    \/ StartListening
    \/ StopListening
    \/ \E channel \in BusChannels :
           \E handler \in Subscribable(channel) : Subscribe(channel, handler)
    \/ \E channel \in BusChannels, handler \in Handlers : Unsubscribe(channel, handler)
    \/ PublishEvent
    \/ PublishCommand
    \/ \E channel \in BusChannels : RedisPublishRaw(channel)
    \/ \E channel \in BusChannels : CompleteSubscribe(channel)
    \/ Listen

SpecBus == Init /\ [][BusNext]_vars

----------------------------------------------------------------------------
(* The message buses: properties *)

\* the deliveries of the message dispatched last: positions in the log
Delivered == {i \in DOMAIN bus.log : /\ i > bus.last_dispatch.before
                                     /\ bus.log[i].channel = bus.last_dispatch.channel
                                     /\ bus.log[i].message = bus.last_dispatch.message}

\* the handlers the message dispatched last was handed to
Invoked == {bus.log[i].handler : i \in Delivered}

ListSet(list) == {list[i] : i \in DOMAIN list}

\* no handler changed the handler list of the channel during the last dispatch
StableDispatch ==
    /\ bus.last_dispatch.called
    /\ bus.last_dispatch.json
    /\ bus.last_dispatch.subscribers = bus.last_dispatch.after

PublishIndex(channel, msg) ==
    CHOOSE k \in DOMAIN bus.published :
        bus.published[k] = [channel |-> channel, message |-> msg]

\* C17 (per-channel publish order): no handler receives, on one channel, a
\* message before a message whose publish call started earlier, a message
\* published by a handler during a dispatch included.
PublishOrder ==
    \A i, j \in DOMAIN bus.log :
        (/\ i < j
         /\ bus.log[i].handler = bus.log[j].handler
         /\ bus.log[i].channel = bus.log[j].channel)
        => PublishIndex(bus.log[i].channel, bus.log[i].message)
              <= PublishIndex(bus.log[j].channel, bus.log[j].message)

\* C18 (dynamic registration): in both buses a message dispatched is handed to
\* exactly the handlers registered on its channel: none that is registered
\* from the start of the dispatch to its end is skipped, and none is invoked
\* that is registered neither at its start nor at its end; handlers may
\* subscribe and unsubscribe during the dispatch.
DynamicRegistration ==
    (bus.last_dispatch.called /\ bus.last_dispatch.json)
    => /\ (ListSet(bus.last_dispatch.subscribers) \cap ListSet(bus.last_dispatch.after))
             \subseteq Invoked
       /\ Invoked \subseteq
             (ListSet(bus.last_dispatch.subscribers) \cup ListSet(bus.last_dispatch.after))

\* C19 (malformed payloads): in the broker-backed bus a payload that is not
\* JSON is dropped: no handler is invoked for it and the listening loop goes
\* on until stop_listening ends it; a valid message dispatched after a drop
\* is handed to every handler registered on its channel.
MalformedDropped ==
    bus.kind = "MessageBus" =>
       /\ (bus.last_dispatch.called /\ ~bus.last_dispatch.json)
             => /\ Len(bus.log) = bus.last_dispatch.before
                /\ bus.dropped > 0
                /\ bus.running \/ bus.stopped
       /\ (bus.dropped > 0 /\ StableDispatch)
             => ListSet(bus.last_dispatch.subscribers) \subseteq Invoked

\* a payload that is not JSON was dropped, and the loop, still running, has
\* since dispatched a valid message to the two handlers of its channel
MalformedDroppedWitness ==
    /\ bus.kind = "MessageBus"
    /\ bus.dropped > 0
    /\ bus.running
    /\ StableDispatch
    /\ bus.last_dispatch.subscribers = <<"error_prone_handler", "valid_handler">>
    /\ Invoked = {"error_prone_handler", "valid_handler"}

----------------------------------------------------------------------------
(* The dispatcher's refresh of a pod's available requests *)

\* request r is of the type of pod p and stands unclaimed in the queue of its
\* origin, the queues being pq and cq
PendingFor(p, r, pq, cq) ==
    IF p \in CargoPods
    THEN /\ r.type = "cargo"
         /\ \E i \in 1..Len(cq[r.origin]) :
               /\ cq[r.origin][i].request_id = r.request_id
               /\ ~Truthy(cq[r.origin][i].claimed_by)
    ELSE /\ r.type = "passenger"
         /\ \E i \in 1..Len(pq[r.origin]) :
               /\ pq[r.origin][i].passenger_id = r.passenger_id
               /\ ~Truthy(pq[r.origin][i].claimed_by)

\* request r is the request of the arrival event d the dispatcher handled
Triggering(r, d) ==
    d.handled /\ r.type = "passenger" /\ r.passenger_id = d.id /\ r.origin = d.station

\* C21 (dispatcher refresh): a step in which the dispatcher gives a pod a new
\* list of available requests (on an arrival event or in the periodic sweep)
\* leaves in the list only requests of the pod's type that are unclaimed in a
\* station queue, and the triggering request.
DispatcherRefresh ==
    [][\A p \in PodIds :
          pods'[p].available_requests # pods[p].available_requests =>
             \A i \in 1..Len(pods'[p].available_requests) :
                 \/ PendingFor(p, pods'[p].available_requests[i],
                               passenger_queue', cargo_queue')
                 \/ Triggering(pods'[p].available_requests[i], dispatch')]_vars

----------------------------------------------------------------------------
(* The congestion of station_001: arrivals, confirmations of pickups and   *)
(* loadings, and UpdateCapacity commands, in any order                     *)

StationUnchanged ==
    UNCHANGED <<pods, last_claim, claim_log, last_update, move_log, arrivals, routing,
                bus, dispatch, system, ai_router>>

StationOnly ==
    UNCHANGED <<pods, last_claim, claim_log, last_update, move_log, arrivals, routing,
                dispatch, system, ai_router>>

\* the CongestionAlert event number n of station s
AlertEvent(s, n) == [src |-> s, n |-> n, event_type |-> CongestionAlert]

\* the end of Station._publish_congestion_alert, self.publish_event(alert): the
\* alert the arrival handler published, if it did, goes out on the channel of
\* its event type; a station of a system without a bus publishes nowhere
publish_alert_event(b, s, before, after) ==
    IF after.alerts > before.alerts /\ b.kind # None
    THEN publish(b, get_event_channel(CongestionAlert), AlertEvent(s, after.alerts)).bus
    ELSE b

\* a PassengerArrival event handled by station s alone, whose queue holds
\* fewer than limit entries
ArrivePassenger(s, id, dest, limit) ==
    /\ Len(passenger_queue[s]) < limit
    /\ passenger_queue' = [passenger_queue EXCEPT ![s] = Append(@, NewPassenger(id, dest))]
    /\ \E st \in {after_arrival(station_state[s], Len(passenger_queue[s]) + 1,
                                 Len(cargo_queue[s]))} :
        /\ station_state' = [station_state EXCEPT ![s] = st]
        /\ bus' = publish_alert_event(bus, s, station_state[s], st)
    /\ UNCHANGED cargo_queue
    /\ StationOnly

\* a CargoRequest event handled by station s alone
ArriveCargo(s, id, dest, weight, limit) ==
    /\ Len(cargo_queue[s]) < limit
    /\ cargo_queue' = [cargo_queue EXCEPT ![s] = Append(@, NewCargo(id, dest, weight))]
    /\ \E st \in {after_arrival(station_state[s], Len(passenger_queue[s]),
                                 Len(cargo_queue[s]) + 1)} :
        /\ station_state' = [station_state EXCEPT ![s] = st]
        /\ bus' = publish_alert_event(bus, s, station_state[s], st)
    /\ UNCHANGED passenger_queue
    /\ StationOnly

\* the arrivals at a station that has published fewer than MaxAlerts alerts
QueuePassenger(s, id, dest) ==
    station_state[s].alerts < MaxAlerts /\ ArrivePassenger(s, id, dest, MaxWaiting)

QueueCargo(s, id, dest, weight) ==
    station_state[s].alerts < MaxAlerts /\ ArriveCargo(s, id, dest, weight, MaxWaiting)

\* a PassengerPickedUp event for station s: Station._handle_passenger_pickup
ConfirmPassengerPickup(s, id) ==
    /\ FirstPassenger(passenger_queue[s], id) # 0
    /\ \E q \in {handle_passenger_pickup(passenger_queue[s], id)} :
        /\ passenger_queue' = [passenger_queue EXCEPT ![s] = q]
        /\ station_state' = [station_state EXCEPT ![s] =
               after_removal(@, Len(q), Len(cargo_queue[s]))]
    /\ UNCHANGED cargo_queue
    /\ StationUnchanged

\* a CargoLoaded event for station s: Station._handle_cargo_loading
ConfirmCargoLoaded(s, id) ==
    /\ FirstCargo(cargo_queue[s], id) # 0
    /\ \E q \in {handle_cargo_loading(cargo_queue[s], id)} :
        /\ cargo_queue' = [cargo_queue EXCEPT ![s] = q]
        /\ station_state' = [station_state EXCEPT ![s] =
               after_removal(@, Len(passenger_queue[s]), Len(q))]
    /\ UNCHANGED passenger_queue
    /\ StationUnchanged

\* an UpdateCapacity command for station s
UpdateCapacity(s, max_pods) ==
    /\ station_state[s].loading_bays # max_pods
    /\ station_state' = [station_state EXCEPT ![s] = handle_capacity_update(@, max_pods)]
    /\ UNCHANGED <<passenger_queue, cargo_queue>>
    /\ StationUnchanged

StationNext ==
    \/ QueuePassenger(s1, "p1", s2)
    \/ QueueCargo(s1, "c1", s2, 1)
    \/ ConfirmPassengerPickup(s1, "p1")
    \/ ConfirmCargoLoaded(s1, "c1")
    \/ \E max_pods \in MaxPods : UpdateCapacity(s1, max_pods)

SpecStation == Init /\ [][StationNext]_vars

\* C22 (congestion range): the congestion level of every station is in [0, 1].
CongestionRange ==
    \A s \in Stations :
        /\ station_state[s].congestion_level >= 0
        /\ station_state[s].congestion_level <= 1000

\* C23 (one alert per crossing): an arrival that takes the level of its
\* station from 0.7 or less to more than 0.7 publishes one CongestionAlert,
\* and an arrival that finds the level above 0.7 and leaves it there
\* publishes none.
OneAlertPerCrossing ==
    [][\A s \in Stations :
          (Len(passenger_queue'[s]) + Len(cargo_queue'[s])
              > Len(passenger_queue[s]) + Len(cargo_queue[s])) =>
             /\ (/\ station_state[s].congestion_level <= AlertThreshold
                 /\ station_state'[s].congestion_level > AlertThreshold)
                   => station_state'[s].alerts = station_state[s].alerts + 1
             /\ (/\ station_state[s].congestion_level > AlertThreshold
                 /\ station_state'[s].congestion_level > AlertThreshold)
                   => station_state'[s].alerts = station_state[s].alerts]_vars

\* C24 (alerts only when congested): a step in which a station publishes a
\* CongestionAlert leaves the station with a level of 0.7 or more, and the
\* alert carries that level.
AlertsOnlyWhenCongested ==
    [][\A s \in Stations :
          station_state'[s].alerts # station_state[s].alerts =>
             /\ station_state'[s].congestion_level >= AlertThreshold
             /\ station_state'[s].alert_level = station_state'[s].congestion_level]_vars

\* station_001 has published an alert that carries its level, above 0.7
AlertsOnlyWhenCongestedWitness ==
    /\ station_state[s1].alerts > 0
    /\ station_state[s1].congestion_level > AlertThreshold
    /\ station_state[s1].alert_level = station_state[s1].congestion_level

----------------------------------------------------------------------------
(* Pods that fill up: five passengers and three cargo requests for         *)
(* station_003 arrive at station_001 one after the other, and pod_001 and  *)
(* pod_003 come by on the route [station_002, station_001]                 *)

MaxLoad == 5     \* entries one queue of station_001 holds while the pods fill up

Travellers == <<"p1", "p2", "p3", "p4", "p5">>
Freight == <<"c1", "c2", "c3">>
FreightWeights == <<300, 500, 200>>
FillingPods == {"pod_001", "pod_003"}

\* the request has reached station_001: it waits there or is aboard a pod
PassengerKnown(id) ==
    \/ FirstPassenger(passenger_queue[s1], id) # 0
    \/ \E p \in PodIds : Aboard(pods[p].passengers, id) > 0

CargoKnown(id) ==
    \/ FirstCargo(cargo_queue[s1], id) # 0
    \/ \E p \in PodIds : Loaded(pods[p].cargo, id) > 0

FullNext ==
    \/ \E k \in 1..Len(Travellers) :
          /\ \A j \in 1..(k-1) : PassengerKnown(Travellers[j])
          /\ ~PassengerKnown(Travellers[k])
          /\ Len(passenger_queue[s1]) < MaxLoad
          /\ QueuePassenger(s1, Travellers[k], s3)
    \/ \E k \in 1..Len(Freight) :
          /\ \A j \in 1..(k-1) : CargoKnown(Freight[j])
          /\ ~CargoKnown(Freight[k])
          /\ Len(cargo_queue[s1]) < MaxLoad
          /\ QueueCargo(s1, Freight[k], s3, FreightWeights[k])
    \/ \E p \in FillingPods : Decide(p, <<s2, s1>>)
    \/ \E p \in FillingPods, dt \in {2, 3} : Moving(pods[p]) /\ Update(p, dt)
    \/ \E p \in FillingPods : ResumePod(p)

SpecFull == Init /\ [][FullNext]_vars

\* a call update(dt) on pod p that ran a station-arrival check
ArrivalTick(p) ==
    /\ pods[p].task.pc = "none"
    /\ move_log'[p].elapsed > move_log[p].elapsed
    /\ last_update'[p].checks # <<>>

\* C25 (full pods skip the pickup): a station arrival of a passenger pod with
\* no seat left, or of a cargo pod with no weight left, leaves every station
\* queue with its entries and their claimed_by as they were, and the pod's
\* manifest and used weight as they were.
FullPodSkipsPickup ==
    [][\A p \in PodIds :
          (/\ ArrivalTick(p)
           /\ IF p \in CargoPods THEN pods[p].current_weight >= weight_capacity
                                 ELSE Len(pods[p].passengers) >= capacity)
          => /\ passenger_queue' = passenger_queue
             /\ cargo_queue' = cargo_queue
             /\ pods'[p].passengers = pods[p].passengers
             /\ pods'[p].cargo = pods[p].cargo
             /\ pods'[p].current_weight = pods[p].current_weight]_vars

\* a passenger pod with every seat taken has come by station_001 while an
\* unclaimed passenger waited there, and so has a cargo pod with its weight
\* used up while an unclaimed request waited: the tick ran one arrival check
\* and returned without a loading delay
FullPodSkipsPickupWitness ==
    /\ Len(pods["pod_001"].passengers) = capacity
    /\ last_update["pod_001"].called
    /\ last_update["pod_001"].checks = <<s1>>
    /\ last_update["pod_001"].returned
    /\ pods["pod_001"].status = IDLE
    /\ get_pending_passengers(passenger_queue[s1]) # <<>>
    /\ move_log["pod_001"].assignments = 2
    /\ pods["pod_003"].current_weight = weight_capacity
    /\ last_update["pod_003"].called
    /\ last_update["pod_003"].checks = <<s1>>
    /\ last_update["pod_003"].returned
    /\ pods["pod_003"].status = IDLE
    /\ get_pending_cargo(cargo_queue[s1]) # <<>>
    /\ move_log["pod_003"].assignments = 2

----------------------------------------------------------------------------
(* The life of an AexisSystem on a MessageBus: start, the turns of its      *)
(* three loops, and shutdown                                                *)

SystemUnchanged ==
    UNCHANGED <<passenger_queue, cargo_queue, pods, last_claim, claim_log, last_update,
                move_log, arrivals, routing, bus, station_state, dispatch, ai_router>>

Start ==
    /\ system.shutdown = "none"
    /\ ~system.running
    /\ system' = start(system)
    /\ SystemUnchanged

Shutdown ==
    /\ system.shutdown = "none"
    /\ system' = shutdown(system)
    /\ SystemUnchanged

ShutdownStep ==
    /\ system.shutdown \in {"unsubscribe", "aclose", "disconnect"}
    /\ system' = shutdown_step(system)
    /\ SystemUnchanged

\* AexisSystem._simulate_pod_movement after its asyncio.sleep
PhysicsWake ==
    /\ system.physics.pc = "sleep"
    /\ \E j \in 0..Len(SystemPods) :
          system' = [system EXCEPT !.physics = begin_iteration(system, @, j)]
    /\ SystemUnchanged

\* ... and when the delay inside the pod.update it awaits has ended
PhysicsResume ==
    /\ system.physics.pc = "busy"
    /\ \E j \in {0} \cup (system.physics.pod..Len(SystemPods)) :
          system' = [system EXCEPT !.physics = continue_iteration(system, @, j)]
    /\ SystemUnchanged

\* AexisSystem._periodic_decision_making after its asyncio.sleep
SweepWake ==
    /\ system.sweep.pc = "sleep"
    /\ \E j \in 0..Len(SystemPods) :
          system' = [system EXCEPT !.sweep = begin_iteration(system, @, j)]
    /\ SystemUnchanged

\* ... and when the make_decision it awaits runs on
SweepResume ==
    /\ system.sweep.pc = "busy"
    /\ \E j \in {0} \cup (system.sweep.pod..Len(SystemPods)) :
          system' = [system EXCEPT !.sweep = continue_iteration(system, @, j)]
    /\ SystemUnchanged

\* MessageBus.start_listening: pubsub.get_message returns
ListenerMessage ==
    /\ system.listener.pc = "get_message"
    /\ \E outcome \in {"nothing", "handled", "suspended"} :
          system' = [system EXCEPT !.listener = got_message(system, @, outcome)]
    /\ SystemUnchanged

\* ... its sleep, or the handler it awaits, ends
ListenerResume ==
    /\ system.listener.pc \in {"sleep", "busy"}
    /\ system' = [system EXCEPT !.listener = listen_again(system, @)]
    /\ SystemUnchanged

SystemNext ==
    \/ Start
    \/ Shutdown
    \/ ShutdownStep
    \/ PhysicsWake
    \/ PhysicsResume
    \/ SweepWake
    \/ SweepResume
    \/ ListenerMessage
    \/ ListenerResume

SpecSystem == Init /\ [][SystemNext]_vars

Stopped(component) == \E i \in 1..Len(system.stopped) : system.stopped[i] = component

\* C26 (shutdown ordering): once shutdown() has been called, the physics
\* loop, the periodic sweep and the listening loop begin no further iteration
\* (the calls of the iteration in progress are all they still issue); the bus
\* is disconnected only when every pod and every station has been stopped; and
\* the steps of shutdown leave a call that is suspended in a delay where it is.
ShutdownOrdering ==
    [][/\ ~system'.physics.late
       /\ ~system'.sweep.late
       /\ ~system'.listener.late
       /\ ~system'.connected =>
             /\ \A i \in 1..Len(SystemPods) :
                   \E k \in 1..Len(system'.stopped) : system'.stopped[k] = SystemPods[i]
             /\ \A i \in 1..Len(SystemStations) :
                   \E k \in 1..Len(system'.stopped) : system'.stopped[k] = SystemStations[i]
       /\ system'.shutdown # system.shutdown =>
             /\ system'.physics = system.physics
             /\ system'.sweep = system.sweep
             /\ system'.listener = system.listener]_vars

\* shutdown has run to its end and the three loops have exited, the physics
\* loop and the listening loop after calls of the iteration that was in
\* progress when shutdown() was called
ShutdownOrderingWitness ==
    /\ system.shutdown = "done"
    /\ ~system.connected
    /\ system.physics.pc = "exited"
    /\ system.physics.tail
    /\ system.sweep.pc = "exited"
    /\ system.listener.pc = "exited"
    /\ system.listener.tail
    /\ Stopped("pod_003") /\ Stopped(s3)

----------------------------------------------------------------------------
(* The order of a pickup *)

\* C27 (pickup ordering): when a pod enters the loading delay of a pickup,
\* nothing has been added to its manifest yet and no station queue has lost
\* an entry: the entries it claimed wait in the queue, claimed, until the
\* delay has elapsed.
PickupOrdering ==
    [][\A p \in PodIds :
          (pods[p].task.pc = "none" /\ pods'[p].task.pc = "loading") =>
             /\ pods'[p].passengers = pods[p].passengers
             /\ pods'[p].cargo = pods[p].cargo
             /\ \A s \in Stations :
                   /\ Len(passenger_queue'[s]) = Len(passenger_queue[s])
                   /\ Len(cargo_queue'[s]) = Len(cargo_queue[s])]_vars

\* C28 (no leaked claims): a queue entry that is claimed by a pod is one of
\* the pickups of that pod's loading delay, and when the delay ends every one
\* of them is in the pod's manifest; an entry leaves a station queue only into
\* the manifest of a pod; and an entry that is still in a cargo queue (one the
\* pod had no weight left for) is unclaimed.
NoLeakedClaims ==
    [][/\ \A s \in Stations : \A i \in 1..Len(passenger_queue'[s]) :
             LET e == passenger_queue'[s][i]
             IN  Truthy(e.claimed_by) =>
                    /\ pods'[e.claimed_by].task.pc = "loading"
                    /\ \E k \in 1..Len(pods'[e.claimed_by].task.items) :
                          pods'[e.claimed_by].task.items[k] = ManifestPassenger(e)
       /\ \A p \in PassengerPods :
             (pods[p].task.pc = "loading" /\ pods'[p].task # pods[p].task) =>
                \A k \in 1..Len(pods[p].task.items) :
                   Aboard(pods'[p].passengers, pods[p].task.items[k].passenger_id) = 1
       /\ \A s \in Stations : \A i \in 1..Len(cargo_queue'[s]) :
             ~Truthy(cargo_queue'[s][i].claimed_by)
       /\ \A k \in 1..Len(Travellers) :
             (FirstPassenger(passenger_queue[s1], Travellers[k]) # 0
                 /\ FirstPassenger(passenger_queue'[s1], Travellers[k]) = 0)
             => \E p \in PassengerPods : Aboard(pods'[p].passengers, Travellers[k]) = 1
       /\ \A k \in 1..Len(Freight) :
             (FirstCargo(cargo_queue[s1], Freight[k]) # 0
                 /\ FirstCargo(cargo_queue'[s1], Freight[k]) = 0)
             => \E p \in CargoPods : Loaded(pods'[p].cargo, Freight[k]) = 1]_vars

\* pod_001 has boarded the passengers it claimed, and pod_003 has loaded c1
\* and c3, which arrived after c2: c2, too heavy for the weight c1 left, was
\* passed over and waits unclaimed
NoLeakedClaimsWitness ==
    /\ Len(pods["pod_001"].passengers) >= 2
    /\ pods["pod_001"].task.pc = "none"
    /\ passenger_queue[s1] = <<>>
    /\ Loaded(pods["pod_003"].cargo, "c1") = 1
    /\ Loaded(pods["pod_003"].cargo, "c3") = 1
    /\ pods["pod_003"].task.pc = "loading"
    /\ Len(cargo_queue[s1]) = 1
    /\ cargo_queue[s1][1].request_id = "c2"
    /\ ~Truthy(cargo_queue[s1][1].claimed_by)
    /\ move_log["pod_003"].assignments = 1

----------------------------------------------------------------------------
(* Deliveries: at station_001 one passenger and one cargo request wait for *)
(* station_002 and one of each for station_003; pod_001 and pod_003 come   *)
(* by and go on to station_002                                              *)

DeliveryNext ==
    \/ /\ ~PassengerKnown("p1") /\ move_log["pod_001"].assignments < MaxAssignments
       /\ QueuePassenger(s1, "p1", s2)
    \/ /\ ~PassengerKnown("p2") /\ move_log["pod_001"].assignments < MaxAssignments
       /\ QueuePassenger(s1, "p2", s3)
    \/ /\ ~CargoKnown("c1") /\ move_log["pod_003"].assignments < MaxAssignments
       /\ QueueCargo(s1, "c1", s2, 200)
    \/ /\ ~CargoKnown("c2") /\ move_log["pod_003"].assignments < MaxAssignments
       /\ QueueCargo(s1, "c2", s3, 200)
    \/ \E p \in FillingPods, r \in {<<s2, s1>>, <<s1, s2>>} : Decide(p, r)
    \/ \E p \in FillingPods, dt \in {2, 3} : Moving(pods[p]) /\ Update(p, dt)
    \/ \E p \in FillingPods : ResumePod(p)

SpecDelivery == Init /\ [][DeliveryNext]_vars

\* the ids of the entries of a manifest of pod p
ManifestIds(p, manifest) ==
    [i \in 1..Len(manifest) |->
        IF p \in CargoPods THEN manifest[i].request_id ELSE manifest[i].passenger_id]

\* C29 (delivery exactness): when the unloading delay of a delivery at station
\* X ends, exactly the entries aboard whose destination is X have left the
\* manifest, each with one delivery confirmation, every other entry is still
\* aboard, and the used weight of a cargo pod has gone down by the weight of
\* the delivered entries.
DeliveryExactness ==
    [][\A p \in PodIds :
          (pods[p].task.pc = "unloading" /\ pods'[p].task # pods[p].task) =>
             LET stay(e) == e.destination # pods[p].task.station
                 go(e) == e.destination = pods[p].task.station
             IN  /\ pods'[p].passengers = SelectSeq(pods[p].passengers, stay)
                 /\ pods'[p].cargo = SelectSeq(pods[p].cargo, stay)
                 /\ pods'[p].current_weight =
                       pods[p].current_weight - SumWeight(SelectSeq(pods[p].cargo, go))
                 /\ last_update'[p].delivered =
                       last_update[p].delivered
                          \o ManifestIds(p, SelectSeq(pods[p].passengers, go))
                          \o ManifestIds(p, SelectSeq(pods[p].cargo, go))]_vars

\* both pods have delivered at station_002 what was bound for it and still
\* carry what is bound for station_003
DeliveryExactnessWitness ==
    /\ last_update["pod_001"].delivered = <<"p1">>
    /\ ManifestIds("pod_001", pods["pod_001"].passengers) = <<"p2">>
    /\ pods["pod_001"].task.pc = "none"
    /\ last_update["pod_003"].delivered = <<"c1">>
    /\ ManifestIds("pod_003", pods["pod_003"].cargo) = <<"c2">>
    /\ pods["pod_003"].current_weight = 200
    /\ pods["pod_003"].task.pc = "none"

----------------------------------------------------------------------------
(* AssignRoute commands of every shape for a pod that is moved in between  *)

CommandRoutes == {<<>>, <<s1, s2>>, <<s2, s3>>}

RouteData ==
    {RouteList(r) : r \in CommandRoutes}
       \cup {RouteDict(keys, r) : keys \in SUBSET required_fields, r \in CommandRoutes}
       \cup {RouteOther}

\* the station list the pod is left with by the command
Usable(route_data) ==
    \/ route_data.kind = "list"
    \/ route_data.kind = "dict" /\ required_fields \subseteq route_data.keys

\* an AssignRoute command with the route parameter route_data is handled by
\* its target, pod p
AssignRouteCommand(p, route_data) ==
    /\ move_log[p].assignments < MaxAssignments
    /\ pods' = [pods EXCEPT ![p] = handle_route_command(@, route_data)]
    /\ move_log' = [move_log EXCEPT ![p] =
                       [route |-> IF Usable(route_data) THEN route_data.stations ELSE @.route,
                        assignments |-> @.assignments + 1,
                        elapsed |-> 0, capped |-> FALSE]]
    /\ Accepted(p)
    /\ last_claim' = NoClaim
    /\ UNCHANGED <<passenger_queue, cargo_queue, claim_log, arrivals, routing, bus,
                   station_state, dispatch, system, ai_router>>

CommandNext ==
    \/ \E route_data \in RouteData : AssignRouteCommand("pod_001", route_data)
    \/ \E dt \in 1..MaxElapsed : Update("pod_001", dt)

SpecCommand == Init /\ [][CommandNext]_vars

\* the route parameters the pod has no use for
InvalidRouteData ==
    {d \in RouteData : \/ d.kind = "other"
                       \/ d.kind = "dict" /\ ~(required_fields \subseteq d.keys)
                       \/ d.kind = "list" /\ d.stations = <<>>
                       \/ d.kind = "dict" /\ d.stations = <<>>}

\* C30 (invalid AssignRoute is dropped): the handling of an AssignRoute command
\* whose route parameter is neither a list nor an object, an object without
\* route_id, stations or estimated_duration, or an empty station list, leaves
\* the pod's status, current route, current segment and segment queue as they
\* were.
InvalidRouteDropped ==
    [][\A p \in PodIds : \A d \in InvalidRouteData :
          AssignRouteCommand(p, d) =>
             /\ pods'[p].status = pods[p].status
             /\ pods'[p].current_route = pods[p].current_route
             /\ pods'[p].current_segment = pods[p].current_segment
             /\ pods'[p].route_queue = pods[p].route_queue]_vars

----------------------------------------------------------------------------
(* Routes over pairs that are no edge of the graph and over a station the  *)
(* network does not have                                                    *)

station_999 == "station_999"

\* NetworkContext.edges: both directions of every edge of the line
edges == {<<s1, s2>>, <<s2, s1>>, <<s2, s3>>, <<s3, s2>>}

HydrateRoutes ==
    {<<s1, s2>>, <<s1, s3, s2>>, <<s3, s2, s1>>, <<s1, s2, s1, s3>>,
     <<s1, station_999>>, <<s2, station_999>>}

HydrateNext ==
    \/ \E r \in HydrateRoutes : AssignRoute("pod_001", r)
    \/ \E dt \in 1..MaxElapsed : Update("pod_001", dt)

SpecHydrate == Init /\ [][HydrateNext]_vars

\* C31 (route hydration): hydrating a route of n >= 2 station ids yields
\* exactly n-1 segments in route order, the first as the current segment with
\* progress 0 and the remaining n-2 as the whole segment queue (segments of an
\* earlier route are gone); the segment of a pair has the pair for end points
\* and, edge of the graph or synthetic, the distance of the two stations'
\* positions for length.
RouteHydration ==
    [][\A p \in PodIds : \A r \in HydrateRoutes :
          AssignRoute(p, r) =>
             LET n == Len(r)
                 pod == pods'[p]
                 segs == <<pod.current_segment>> \o pod.route_queue
             IN  /\ pod.current_segment # NoSegment
                 /\ pod.segment_progress = 0
                 /\ Len(pod.route_queue) = n - 2
                 /\ Len(segs) = n - 1
                 /\ \A i \in 1..(n-1) :
                       /\ segs[i].start_node = r[i]
                       /\ segs[i].end_node = r[i+1]
                       /\ Length(segs[i]) =
                             Abs(station_positions(r[i+1]) - station_positions(r[i]))]_vars

\* a second route has just been hydrated: a pair that is no edge first, an
\* edge of the graph queued behind it
RouteHydrationWitness ==
    /\ move_log["pod_001"].assignments = 2
    /\ move_log["pod_001"].route = <<s1, s3, s2>>
    /\ move_log["pod_001"].elapsed = 0
    /\ <<s1, s3>> \notin edges /\ <<s3, s2>> \in edges
    /\ pods["pod_001"].current_segment = EdgeSegment(s1, s3)
    /\ pods["pod_001"].segment_progress = 0
    /\ pods["pod_001"].route_queue = <<EdgeSegment(s3, s2)>>
    /\ Length(pods["pod_001"].current_segment) = 100

\* C32 (unknown station in a route): a pod that is idle at its first station
\* and is handed, as its first command, a route naming a station the network
\* does not have, stays IDLE and stays located at that first station, after the
\* command and after every movement tick that follows.
UnknownStationRefused ==
    \A p \in PodIds :
        LET r == move_log[p].route
        IN  (/\ move_log[p].assignments = 1
             /\ r # <<>>
             /\ r[1] = s1
             /\ \E i \in 1..Len(r) : r[i] \notin Stations)
            => /\ pods[p].status = IDLE
               /\ pods[p].location_descriptor = StationLocation(s1)

----------------------------------------------------------------------------
(* A pod deciding with a router chain that can fail                        *)

\* make_decision without its except clauses: the ValueError of the provider
\* reaches the caller
make_decision_uncaught(pod, routers) ==
    LET route == provider_route(routers)
    IN  IF route.raised
        THEN [pod |-> pod, published |-> FALSE, escaped |-> TRUE]
        ELSE [pod |-> execute_decision(pod, route.route.stations),
              published |-> TRUE, escaped |-> FALSE]

\* Pod.make_decision with the provider's chain routers: the pod after it,
\* whether a PodDecision event was published, whether an exception escaped
make_decision_outcome(pod, routers) ==
    LET route == provider_route(routers)
    IN  IF route.raised
        THEN [pod |-> pod, published |-> FALSE, escaped |-> FALSE]
        ELSE [pod |-> execute_decision(pod, route.route.stations),
              published |-> TRUE, escaped |-> FALSE]

\* pod p decides, its provider holding the routers added so far
MakeDecision(p) ==
    /\ pods[p].task.pc = "none"
    /\ move_log[p].assignments < MaxAssignments
    /\ \E r \in {provider_route(routing.routers)} :
       \E out \in {make_decision_outcome(pods[p], routing.routers)} :
        /\ pods' = [pods EXCEPT ![p] = out.pod]
        /\ routing' = [routing EXCEPT !.call =
               [called |-> TRUE, raised |-> r.raised, error |-> r.error,
                route |-> r.route, invoked |-> r.invoked,
                published |-> out.published, escaped |-> out.escaped]]
        /\ move_log' = [move_log EXCEPT ![p] =
               [route |-> IF r.raised THEN @.route ELSE r.route.stations,
                assignments |-> @.assignments + 1,
                elapsed |-> IF r.raised THEN @.elapsed ELSE 0,
                capped |-> IF r.raised THEN @.capped ELSE FALSE]]
        /\ last_update' = [last_update EXCEPT ![p] = IF r.raised THEN @ ELSE NoUpdate]
    /\ last_claim' = NoClaim
    /\ UNCHANGED <<passenger_queue, cargo_queue, claim_log, arrivals, bus,
                   station_state, dispatch, system, ai_router>>

DecideNext ==
    \/ \E router \in RouterBehaviours : AddRouter(router)
    \/ MakeDecision("pod_001")
    \/ AssignRoute("pod_001", <<s1, s2, s3>>)
    \/ \E dt \in {1, 2} : Update("pod_001", dt)

SpecDecide == Init /\ [][DecideNext]_vars

\* C33 (routing failure absorbed): when the provider's route() fails, every
\* router of the chain having raised or returned None, make_decision raises
\* nothing, publishes no PodDecision and leaves the pod (status, current
\* route, current segment, segment queue, location, manifest) as it was.
RoutingFailureAbsorbed ==
    [][\A p \in PodIds :
          (MakeDecision(p) /\ provider_route(routing.routers).raised) =>
             /\ ~routing'.call.escaped
             /\ ~routing'.call.published
             /\ pods'[p].status = pods[p].status
             /\ pods'[p].current_route = pods[p].current_route
             /\ pods'[p].current_segment = pods[p].current_segment
             /\ pods'[p].route_queue = pods[p].route_queue
             /\ pods'[p].location_descriptor = pods[p].location_descriptor
             /\ pods'[p].passengers = pods[p].passengers
             /\ pods'[p].cargo = pods[p].cargo]_vars

\* a pod under way on a route it was given has just decided, and both routers
\* of its chain failed
RoutingFailureAbsorbedWitness ==
    /\ routing.call.called
    /\ routing.call.raised
    /\ routing.call.invoked = <<1, 2>>
    /\ ~routing.call.published
    /\ move_log["pod_001"].assignments = 2
    /\ pods["pod_001"].status = EN_ROUTE
    /\ pods["pod_001"].location_descriptor.location_type = "edge"
    /\ pods["pod_001"].current_route = Route(<<s1, s2, s3>>)

----------------------------------------------------------------------------
(* Arrival at a station the network does not have: a passenger pod and a   *)
(* cargo pod load at the second station and are sent on to station_999     *)

GhostPods == {"pod_001", "pod_003"}

GhostNext ==
    \/ PassengerArrival(s2, "p1", s3)
    \/ CargoRequest(s2, "c1", s3, 200)
    \/ \E p \in GhostPods, r \in {<<s1, s2>>, <<s2, station_999>>} : AssignRoute(p, r)
    \/ \E p \in GhostPods, dt \in {2, 3} : Update(p, dt)
    \/ \E p \in GhostPods : ResumePod(p)

SpecGhost == Init /\ [][GhostNext]_vars

\* an update() call of pod p runs the station arrival at station_999
GhostArrival(p) ==
    /\ \E dt \in {2, 3} : Update(p, dt)
    /\ \E i \in 1..Len(last_update'[p].checks) : last_update'[p].checks[i] = station_999

\* what the arrival at station_999 leaves alone: the station queues and the
\* pod's manifest; the call runs to its end without a delay
GhostArrivalKeeps(p) ==
    /\ passenger_queue' = passenger_queue
    /\ cargo_queue' = cargo_queue
    /\ pods'[p].passengers = pods[p].passengers
    /\ pods'[p].cargo = pods[p].cargo
    /\ pods'[p].current_weight = pods[p].current_weight
    /\ pods'[p].task.pc = "none"
    /\ last_update'[p].returned

----------------------------------------------------------------------------
(* The offline router's filter for a cargo pod that has loaded up to its   *)
(* weight capacity: a cargo request of 500 kg waits at the first station,  *)
(* the cargo pod is sent there, and passengers arrive                      *)

FilterNext ==
    \/ \E w \in {200, weight_capacity} : CargoRequest(s1, "c1", s3, w)
    \/ Decide("pod_003", <<s2, s1>>)
    \/ \E dt \in {2, 3} : Update("pod_003", dt)
    \/ ResumePod("pod_003")
    \/ \E id \in PassengerIds : Fresh(id) /\ PublishPassengerArrival(s1, id, s2)

SpecFilter == Init /\ [][FilterNext]_vars

\* the destinations of the requests of pod p's own kind among those it knows
OwnDestinations(p) ==
    LET reqs == pods[p].available_requests
        own == IF p \in CargoPods THEN "cargo" ELSE "passenger"
    IN  {reqs[i].destination : i \in {k \in 1..Len(reqs) : reqs[k].type = own}}

\* C35 (capability filter in offline routing): whatever passenger capacity
\* and weight a pod has left, the destinations the offline router extracts
\* from the pod's decision context are destinations of passenger requests for
\* a passenger pod and of cargo requests for a cargo pod.
CapabilityFilter ==
    \A p \in PodIds :
        extract_destinations(build_decision_context(pods[p], p)) \subseteq OwnDestinations(p)

----------------------------------------------------------------------------
(* AIRouter and its AIDecisionEngine (core/routing.py), the provider       *)
(* succeeding or failing call by call while the clock runs                 *)

retry_window == 30     \* minutes an engine keeps off the provider after a failure
ClockStep == 10        \* minutes the clock advances in one step
MaxClock == 80         \* minutes of one run

\* the route of a Decision the AI provider returns
AIRoute == <<s1, s2, s3>>

\* _should_use_ai that does not look at the last failure
should_use_ai_always(engine, available) == available

\* AIDecisionEngine._should_use_ai; available is ai_provider.is_available()
should_use_ai(engine, available) ==
    IF ~available THEN FALSE
    ELSE IF engine.last_failure # NoFailure
            /\ engine.now - engine.last_failure[1] < retry_window
    THEN FALSE
    ELSE TRUE

\* AIDecisionEngine._record_success
record_success(engine) ==
    [engine EXCEPT !.failure_count = 0, !.last_failure = NoFailure,
                   !.recoveries = IF engine.last_failure # NoFailure THEN @ + 1 ELSE @]

\* AIDecisionEngine._record_failure
record_failure(engine) ==
    [engine EXCEPT !.failure_count = @ + 1, !.last_failure = FailureAt(engine.now)]

\* AIDecisionEngine.make_decision: the engine after it, whether the provider's
\* make_decision was invoked, whether the call raised; succeeds is what the
\* provider does when invoked
engine_make_decision(engine, available, succeeds) ==
    IF ~should_use_ai(engine, available)
    THEN [engine |-> engine, invoked |-> FALSE, raised |-> TRUE]
    ELSE IF succeeds
    THEN [engine |-> record_success(engine), invoked |-> TRUE, raised |-> FALSE]
    ELSE [engine |-> record_failure(engine), invoked |-> TRUE, raised |-> TRUE]

\* AIRouter.route(context): the decision's route, or the fallback strategy's
\* when the engine raised
ai_router_route(router, context, available, succeeds) ==
    LET d == engine_make_decision(router, available, succeeds)
    IN  [d.engine EXCEPT !.last =
            [called |-> TRUE, invoked |-> d.invoked, fallback |-> d.raised,
             raised |-> FALSE,
             stations |-> IF d.raised THEN calculate_optimal_route(context) ELSE AIRoute]]

\* a call AIRouter.route for pod p
CallAIRouter(p, available, succeeds) ==
    /\ ai_router' = ai_router_route(ai_router, build_decision_context(pods[p], p),
                                    available, succeeds)
    /\ UNCHANGED <<passenger_queue, cargo_queue, pods, last_claim, claim_log, last_update,
                   move_log, arrivals, routing, bus, station_state, dispatch, system>>

\* time passes
AdvanceClock ==
    /\ ai_router.now + ClockStep <= MaxClock
    /\ ai_router' = [ai_router EXCEPT !.now = @ + ClockStep]
    /\ UNCHANGED <<passenger_queue, cargo_queue, pods, last_claim, claim_log, last_update,
                   move_log, arrivals, routing, bus, station_state, dispatch, system>>

AINext ==
    \/ \E available \in BOOLEAN, succeeds \in BOOLEAN :
          CallAIRouter("pod_001", available, succeeds)
    \/ AdvanceClock

SpecAI == Init /\ [][AINext]_vars

\* the engine is in the cool-down of a failure
CoolingDown ==
    /\ ai_router.last_failure # NoFailure
    /\ ai_router.now - ai_router.last_failure[1] < retry_window

\* C36 (AI cool-down): a route() call made while less than the cool-down has
\* passed since the provider's last failure does not invoke the provider,
\* raises nothing and returns the offline fallback route; a route() call in
\* which the provider decides successfully leaves no failure recorded.
AICoolDown ==
    [][\A available \in BOOLEAN, succeeds \in BOOLEAN :
          CallAIRouter("pod_001", available, succeeds) =>
             /\ CoolingDown =>
                   /\ ~ai_router'.last.invoked
                   /\ ~ai_router'.last.raised
                   /\ ai_router'.last.fallback
                   /\ ai_router'.last.stations =
                         calculate_optimal_route(
                             build_decision_context(pods["pod_001"], "pod_001"))
                   /\ ai_router'.last_failure = ai_router.last_failure
             /\ (ai_router'.last.invoked /\ ~ai_router'.last.fallback) =>
                   /\ ai_router'.failure_count = 0
                   /\ ai_router'.last_failure = NoFailure]_vars

\* the provider failed, recovered after the cool-down and failed again: a
\* route() call in the second cool-down has just been answered by the fallback
AICoolDownWitness ==
    /\ CoolingDown
    /\ ai_router.recoveries >= 1
    /\ ai_router.failure_count = 1
    /\ ai_router.now > ai_router.last_failure[1]
    /\ ai_router.last.called
    /\ ~ai_router.last.invoked
    /\ ai_router.last.fallback
    /\ ai_router.last.stations = <<s1>>

----------------------------------------------------------------------------
(* Pods that are EN_ROUTE *)

\* C37 (EN_ROUTE implies movable): in every reachable state a pod whose
\* status is EN_ROUTE has a current segment.
EnRouteMovable ==
    \A p \in PodIds : pods[p].status = EN_ROUTE => pods[p].current_segment # NoSegment

----------------------------------------------------------------------------
(* A route command that reaches a pod in a loading or unloading delay:     *)
(* passengers wait at the second station, the pod is sent there and, at    *)
(* any time, on to the third                                                *)

ReassignNext ==
    \/ \E id \in PassengerIds : Fresh(id) /\ PassengerArrival(s2, id, s3)
    \/ \E r \in {<<s1, s2>>, <<s2, s3>>} : AssignRoute("pod_001", r)
    \/ \E dt \in {2, 3} : Update("pod_001", dt)
    \/ ResumePod("pod_001")

SpecReassign == Init /\ [][ReassignNext]_vars

\* pod p is suspended in a delay and has been handed a route since the
\* update() call that runs the delay
AssignedInDelay(p) ==
    /\ pods[p].task.pc # "none"
    /\ move_log[p].elapsed = 0
    /\ Len(move_log[p].route) >= 2

\* C38 (a route assigned during a loading delay is not lost): when the delay
\* of a station arrival ends for a pod that was handed a route during it, and
\* no further delay follows, the pod is EN_ROUTE on the new route: its
\* current route is the new one and the new segments are still there.
RouteAssignedInDelayKept ==
    [][\A p \in PodIds :
          (AssignedInDelay(p) /\ ResumePod(p) /\ pods'[p].task.pc = "none") =>
             /\ pods'[p].status = EN_ROUTE
             /\ pods'[p].current_route = Route(move_log[p].route)
             /\ pods'[p].current_segment # NoSegment]_vars

----------------------------------------------------------------------------
(* A station with its default bays whose queues grow past the lengths that *)
(* saturate the level (20 passengers, 10 cargo requests)                    *)

MaxLongPassengers == 22     \* passengers the queue of station_001 may hold
MaxLongCargo == 12          \* cargo requests the queue of station_001 may hold

DefaultBaysNext ==
    \/ ArrivePassenger(s1, "p1", s2, MaxLongPassengers)
    \/ ArriveCargo(s1, "c1", s2, 1, MaxLongCargo)
    \/ ConfirmPassengerPickup(s1, "p1")
    \/ ConfirmCargoLoaded(s1, "c1")

SpecDefaultBays == Init /\ [][DefaultBaysNext]_vars

\* C39 (default congestion ceiling): a station with the default bays
\* (loading_bays = available_bays = 4) never has a congestion level above 0.7,
\* however long its queues are, has published no CongestionAlert and is never
\* CONGESTED.
DefaultCongestionCeiling ==
    \A s \in Stations :
        station_state[s].loading_bays = available_bays =>
            /\ station_state[s].congestion_level <= AlertThreshold
            /\ station_state[s].alerts = 0
            /\ station_state[s].status # "congested"

\* both queues of station_001 are longer than what saturates the level, and
\* the level is at the ceiling
DefaultCongestionCeilingWitness ==
    /\ Len(passenger_queue[s1]) > 20
    /\ Len(cargo_queue[s1]) > 10
    /\ station_state[s1].loading_bays = 4
    /\ station_state[s1].congestion_level = AlertThreshold
    /\ station_state[s1].alerts = 0
    /\ station_state[s1].status = "operational"

----------------------------------------------------------------------------
(* Congestion alerts on the bus: pods are started on a running bus, then    *)
(* station_001, its bays raised by an UpdateCapacity command, fills up      *)

MaxAlertPassengers == 7     \* passengers the queue of station_001 may hold
MaxAlertCargo == 10         \* cargo requests the queue of station_001 may hold

AlertPods == {"pod_001", "pod_003"}

\* the bound method pod._handle_command / pod._handle_system_event of pod p
handle_command(p) ==
    CASE p = "pod_001" -> "pod_001._handle_command"
      [] p = "pod_002" -> "pod_002._handle_command"
      [] p = "pod_003" -> "pod_003._handle_command"

handle_system_event(p) ==
    CASE p = "pod_001" -> "pod_001._handle_system_event"
      [] p = "pod_002" -> "pod_002._handle_system_event"
      [] p = "pod_003" -> "pod_003._handle_system_event"

\* Pod._setup_subscriptions
setup_subscriptions(b, p) ==
    subscribe(subscribe(b, POD_COMMANDS, handle_command(p)),
              SYSTEM_EVENTS, handle_system_event(p))

\* pod p has been started
Started(p) == InList(bus.subscribers[SYSTEM_EVENTS], handle_system_event(p))

\* pod.start() for pod p, before any station has published an alert
StartPod(p) ==
    /\ bus.kind # None
    /\ bus.running
    /\ ~Started(p)
    /\ bus.published = <<>>
    /\ bus' = setup_subscriptions(bus, p)
    /\ UNCHANGED OtherVars

MaxSnapshots == 1           \* snapshots the system publishes

\* the SystemSnapshot event number n
SnapshotEvent(n) == [src |-> "system", n |-> n, event_type |-> SystemSnapshot]

Snapshots ==
    {i \in 1..Len(bus.published) : bus.published[i].message.event_type = SystemSnapshot}

\* AexisSystem._publish_snapshot
PublishSnapshot ==
    /\ bus.kind # None
    /\ bus.running
    /\ Cardinality(Snapshots) < MaxSnapshots
    /\ bus' = publish(bus, get_event_channel(SystemSnapshot),
                      SnapshotEvent(Cardinality(Snapshots) + 1)).bus
    /\ UNCHANGED OtherVars

AlertNext ==
    \/ \E kind \in BusKinds : CreateBus(kind)
    \/ Connect
    \/ StartListening
    \/ \E p \in AlertPods : StartPod(p)
    \/ \E channel \in {POD_COMMANDS, SYSTEM_EVENTS} : CompleteSubscribe(channel)
    \/ Listen
    \/ PublishSnapshot
    \/ UpdateCapacity(s1, 400)
    \/ bus.running /\ ArrivePassenger(s1, "p1", s2, MaxAlertPassengers)
    \/ bus.running /\ ArriveCargo(s1, "c1", s2, 1, MaxAlertCargo)

SpecAlert == Init /\ [][AlertNext]_vars

\* the CongestionAlert events published so far
PublishedAlerts ==
    {i \in 1..Len(bus.published) : bus.published[i].message.event_type = CongestionAlert}

\* _handle_system_event of pod p has been called with the message
Handled(p, msg) ==
    \E j \in 1..Len(bus.log) :
        bus.log[j].handler = handle_system_event(p) /\ bus.log[j].message = msg

\* the message waits at the broker-backed bus for its listening loop
InFlight(msg) ==
    \E k \in 1..Len(bus.received) : bus.received[k].data.text.message = msg

\* C40 (congestion alerts reach pods): every CongestionAlert a station has
\* published is on a channel every started pod is subscribed to, and has been
\* handed to the system-event handler of every started pod, or is about to be.
AlertsReachPods ==
    \A i \in PublishedAlerts : \A p \in AlertPods :
        Started(p) =>
            /\ InList(bus.subscribers[bus.published[i].channel], handle_system_event(p))
            /\ Handled(p, bus.published[i].message) \/ InFlight(bus.published[i].message)

====
